---- MODULE Spec2Model ----
(***************************************************************************)
(* blobcheck: storage-parameter discovery (internal/blob) and the          *)
(* backup/restore validation run (cmd/s3, internal/validate,               *)
(* internal/workload, internal/db).                                        *)
(*                                                                         *)
(* Three specifications share this module:                                 *)
(*   SpecGen  the candidate generator s3Store.candidateConfigs             *)
(*   SpecTry  S3FromEnv and the discovery loop s3Store.try                 *)
(*   Spec     one run of the s3 command: New, Validate, Clean              *)
(***************************************************************************)
EXTENDS Integers, Sequences, FiniteSets, TLC

VARIABLES
    \* ---- candidate generator (SpecGen)
    genBase,      \* s.params of the store candidateConfigs is called on
    genIdx,       \* index into combos of the next candidate to yield
    genOut,       \* the candidates' params yielded so far, in order
    genState,     \* "running" | "exhausted" | "stopped" (consumer returned false)
    \* ---- discovery (SpecTry)
    envVars,      \* the environment: variable name -> value (LookupEnv)
    envEndpoint,  \* env.Endpoint
    tryStore,     \* params of the initial store built by S3FromEnv, or NoStore
    tryIdx,       \* index of the candidate being probed
    tryPc,        \* position inside S3FromEnv / try
    bucketObj,    \* content of the probe object in the bucket, or Absent
    tryGot,       \* content read back by GetObject for the current candidate
    opsLog,       \* storage operations issued, in order: <<candidate, op, ok>>
    tryResult,    \* what S3FromEnv returned
    \* ---- one run of the s3 command (Spec)
    runEnv,       \* the flags: Guess, Workers, WorkloadDuration > 0, DatabaseURL set
    mainPc,       \* position of the RunE goroutine
    blobStorage,  \* params of the storage S3FromEnv returned
    stepIdx,      \* index of the validation step the loop of Validate is at
    spawnIdx,     \* next worker index of the spawn loop of the concurrent phase
    stopping,     \* ctx.Stop was called on the validator context
    inUse,        \* connections checked out of the pool
    runPc,        \* per Workload.Run goroutine: its position, or how it ended
    doneClosed,   \* per runWorkload call: the done channel is closed
    wPc,          \* per worker task: its position
    bPc,          \* position of the full-backup task
    wg,           \* counter of the sync.WaitGroup g
    db,           \* the database: databases, external connection, rows, backups
    stats,        \* stats captured by the first step
    issued,       \* BACKUP / RESTORE statements issued so far, in order
    phaseLog,     \* names of the steps started, in order
    phaseErrs,    \* names of the steps that returned an error
    integrity,    \* what verifyIntegrity returned
    dropDeferred, \* defer extConn.Drop is registered
    valResult,    \* what Validate returned
    cleanLog,     \* the drops Clean attempted: <<database, ok>>
    cleanResult,  \* what Clean returned
    cmdResult,    \* what RunE returned and printed
    \* ---- functions applied to enumerated inputs (SpecCheck)
    chkBackups,   \* the backup collections ListTableBackups returned
    chkInfo,      \* the entries BackupInfo returned for the first collection
    chkErr,       \* what the comparison of checkBackups returned, or Pending
    \* ---- ExternalConn.Drop called repeatedly (SpecDrop)
    dropName,     \* c.name of the ExternalConn Drop is called on
    dropConns,    \* names of the external connections registered in the cluster
    dropLog,      \* the calls of Drop so far: connections before and after,
                  \* whether the DROP statement was issued, the error returned
    \* ---- s3Store operations on the stores of two runs (SpecStore)
    stEnv,        \* per run: the credentials found in its environment
    stHeap,       \* per run: the maps allocated, s.params being the first
    stShown,      \* per run: the map the last Params() returned, 0 for none
    stURL,        \* per run: what the last URL() returned, and on which params
    stErr,        \* what the last addParam returned, "none" before any
    stOps,        \* operations performed so far
    \* ---- format.Report on one report (SpecFormat)
    fmtReport,    \* the *validate.Report handed to format.Report
    fmtPc,        \* "idle" | "start" | "done"
    fmtOut,       \* the tables rendered to the writer, in order
    \* ---- the keys written by concurrent runs of the workload (SpecKeys)
    kPrefix,      \* per run: the Prefix of its Workload, "" before runWorkload
    kIdx,         \* per run: the local idx of Workload.Run
    kPc,          \* per run: "idle" | "upsert" | "select" | "done" | "failed"
    kKeys,        \* per run: the keys it has upserted, in order
    \* ---- the concurrent phase with any number of workers (SpecPool)
    pN,           \* env.Workers
    pMain,        \* position of runWorkloadWithBackup
    pSpawned,     \* worker tasks handed to ctx.Go so far
    pWg,          \* counter of the sync.WaitGroup
    pWork,        \* number of worker tasks before, and in, their select
    pRuns,        \* number of Workload.Run goroutines per position
    pBackup       \* "idle" | "acquire" | "exec" | "done"

genVars == <<genBase, genIdx, genOut, genState>>
tryVars == <<envVars, envEndpoint, tryStore, tryIdx, tryPc, bucketObj, tryGot,
             opsLog, tryResult>>
runVars == <<runEnv, mainPc, blobStorage, stepIdx, spawnIdx, stopping, inUse, runPc,
             doneClosed, wPc, bPc, wg, db, stats, issued, phaseLog,
             phaseErrs, integrity, dropDeferred, valResult, cleanLog,
             cleanResult, cmdResult>>
chkVars == <<chkBackups, chkInfo, chkErr>>
dropVars == <<dropName, dropConns, dropLog>>
storeVars == <<stEnv, stHeap, stShown, stURL, stErr, stOps>>
fmtVars == <<fmtReport, fmtPc, fmtOut>>
keyVars == <<kPrefix, kIdx, kPc, kKeys>>
poolVars == <<pN, pMain, pSpawned, pWg, pWork, pRuns, pBackup>>
pureVars == <<chkVars, dropVars, storeVars, fmtVars, keyVars, poolVars>>
vars == <<genVars, tryVars, runVars, pureVars>>

(***************************************************************************)
(* internal/blob/s3.go: parameter names and the parameter set              *)
(***************************************************************************)
AccountParam == "AWS_ACCESS_KEY_ID"
SecretParam == "AWS_SECRET_ACCESS_KEY"
TokenParam == "AWS_SESSION_TOKEN"
EndPointParam == "AWS_ENDPOINT"
RegionParam == "AWS_REGION"
UsePathStyleParam == "AWS_USE_PATH_STYLE"
SkipChecksum == "AWS_SKIP_CHECKSUM"
SkipTLSVerify == "AWS_SKIP_TLS_VERIFY"
DefaultRegion == "aws-global"

ValidParams ==
    <<AccountParam, SecretParam, TokenParam, EndPointParam,
      RegionParam, UsePathStyleParam, SkipChecksum, SkipTLSVerify>>

ObfuscatedParams == <<SecretParam, TokenParam>>
Obfuscated == "******"

\* slices.Contains
Contains(list, x) == \E i \in 1..Len(list) : list[i] = x

\* the empty parameter map
EmptyParams == [k \in {} |-> ""]

\* m[key] = value on a Go map
MapSet(m, key, value) ==
    [k \in (DOMAIN m) \cup {key} |-> IF k = key THEN value ELSE m[k]]

\* m[key] read from a Go map: the zero value "" when the key is absent
MapGet(m, key) == IF key \in DOMAIN m THEN m[key] ELSE ""

\* an addParam that sets any key
addParamAny(params, key, value) ==
    [params |-> MapSet(params, key, value), err |-> FALSE]

\* s3Store.addParam: sets the value of a recognized key, rejects any other
addParam(params, key, value) ==
    IF Contains(ValidParams, key)
    THEN [params |-> MapSet(params, key, value), err |-> FALSE]
    ELSE [params |-> params, err |-> TRUE]

\* a Params that shows every value as it is
ParamsPlain(params) == params

\* s3Store.Params: a clone with the sensitive values replaced by the marker
Params(params) ==
    [k \in DOMAIN params |->
        IF Contains(ObfuscatedParams, k) THEN Obfuscated ELSE params[k]]

(***************************************************************************)
(* s3Store.candidateConfigs                                                *)
(***************************************************************************)
\* the toggle combinations, in the order the generator yields them
combos ==
    << <<>>,
       <<SkipChecksum>>,
       <<SkipTLSVerify>>,
       <<UsePathStyleParam>>,
       <<UsePathStyleParam, SkipChecksum>>,
       <<UsePathStyleParam, SkipTLSVerify>>,
       <<UsePathStyleParam, SkipTLSVerify, SkipChecksum>> >>

\* for _, option := range combo { alt.addParam(option, "true") }
RECURSIVE applyCombo(_, _)
applyCombo(params, combo) ==
    IF combo = <<>> THEN params
    ELSE applyCombo(addParam(params, Head(combo), "true").params, Tail(combo))

\* the params of the i-th candidate built on a clone of the store's params
candidateParams(params, i) == applyCombo(params, combos[i])

\* the number of candidates the generator yields when fully consumed
NumCandidates == Len(combos)

\* the three toggles the generator varies
Toggles == {SkipChecksum, SkipTLSVerify, UsePathStyleParam}

\* base parameter sets: a region, and each toggle absent, "true" or "false"
GenBases ==
    { [k \in {RegionParam} \cup {t \in Toggles : f[t] # ""} |->
          IF k = RegionParam THEN "eu-central-1" ELSE f[k]]
      : f \in [Toggles -> {"", "true", "false"}] }

GenIdle ==
    /\ genBase = EmptyParams
    /\ genIdx = 0
    /\ genOut = <<>>
    /\ genState = "idle"

InitGen ==
    /\ genBase \in GenBases
    /\ genIdx = 1
    /\ genOut = <<>>
    /\ genState = "running"

\* one iteration of the generator loop: build the candidate, yield it; the
\* consumer either asks for more or returns false, which ends the sequence
GenYield(more) ==
    /\ genState = "running"
    /\ genIdx <= Len(combos)
    /\ genOut' = Append(genOut, candidateParams(genBase, genIdx))
    /\ genIdx' = genIdx + 1
    /\ genState' = IF more THEN "running" ELSE "stopped"
    /\ UNCHANGED <<genBase, tryVars, runVars, pureVars>>

\* the loop over combos ends
GenExhausted ==
    /\ genState = "running"
    /\ genIdx > Len(combos)
    /\ genState' = "exhausted"
    /\ UNCHANGED <<genBase, genIdx, genOut, tryVars, runVars, pureVars>>

(***************************************************************************)
(* S3FromEnv, lookupEnv and the discovery loop s3Store.try                 *)
(***************************************************************************)
objectKey == "_blobcheck"
content == "dummy_data"

\* the probe object does not exist in the bucket
Absent == "<absent>"
\* what a misbehaving provider hands back instead of the object written
Garbage == "<garbage>"

\* path.Join(env.Path, uuid.NewString()) of the one run modelled
Dest == "test/minio/uuid"
Endpoint == "http://localhost:29000"

\* environments: each of the four variables S3FromEnv looks up is set or not
EnvNames == {AccountParam, SecretParam, TokenParam, RegionParam}
Environments ==
    { [k \in present |-> IF k = RegionParam THEN "us-east-1" ELSE "cockroach"]
      : present \in SUBSET EnvNames }

\* lookupEnv: every required variable must be set, optional ones are copied
\* when set
RECURSIVE lookupRequired(_, _, _)
lookupRequired(env, required, res) ==
    IF required = <<>> THEN [res |-> res, ok |-> TRUE]
    ELSE IF Head(required) \notin DOMAIN env
         THEN [res |-> EmptyParams, ok |-> FALSE]
         ELSE lookupRequired(env, Tail(required),
                             MapSet(res, Head(required), env[Head(required)]))

RECURSIVE lookupOptional(_, _, _)
lookupOptional(env, optional, res) ==
    IF optional = <<>> THEN res
    ELSE lookupOptional(env, Tail(optional),
                        IF Head(optional) \in DOMAIN env
                        THEN MapSet(res, Head(optional), env[Head(optional)])
                        ELSE res)

\* a lookup that treats the required variables as optional ones
lookupEnvLenient(env, required, optional) ==
    [res |-> lookupOptional(env, required \o optional, EmptyParams), ok |-> TRUE]

lookupEnv(env, required, optional) ==
    LET req == lookupRequired(env, required, EmptyParams) IN
    IF ~req.ok THEN req
    ELSE [res |-> lookupOptional(env, optional, req.res), ok |-> TRUE]

\* the creds S3FromEnv puts in the initial store
initialParams(env, endpoint) ==
    LET creds == lookupEnv(env, <<AccountParam, SecretParam>>,
                           <<TokenParam, RegionParam>>).res
        withEp == IF endpoint # "" THEN MapSet(creds, EndPointParam, endpoint)
                  ELSE creds
    IN  IF RegionParam \notin DOMAIN withEp
        THEN MapSet(withEp, RegionParam, DefaultRegion)
        ELSE withEp

\* results of S3FromEnv / try
NoResult == [kind |-> "none", idx |-> 0, params |-> EmptyParams, err |-> "", dest |-> ""]
Chosen(params, i) ==
    [kind |-> "storage", idx |-> i, params |-> params, err |-> "", dest |-> Dest]
Failed(e, d) ==
    [kind |-> "error", idx |-> 0, params |-> EmptyParams, err |-> e, dest |-> d]

ErrMissingParam == "AWS_ACCESS_KEY_ID, AWS_SECRET_ACCESS_KEY must be set"
ErrUnreachable == "unable to connect to storage provider"

\* a storage operation of the probe of candidate c
Op(c, op, ok) == [cand |-> c, op |-> op, ok |-> ok]

\* a loop that skips the candidate after the failed one
continueSkipping(i) == i + 2

\* a loop that probes the second candidate again, twice, before moving on
continueRetrying(i) ==
    IF i = 2 /\ Len(SelectSeq(opsLog, LAMBDA o : o.cand = 2 /\ o.op = "list")) < 2
    THEN i
    ELSE i + 1

\* a loop that stays at the candidate whose first operation failed
continueAgain(i) == IF Len(opsLog) < 2 THEN i ELSE i + 1

\* `continue`: the range loop moves to the candidate after i
continueWith(i) == i + 1

\* `return alt, nil`: the candidate the loop is at is the one returned
returnAlt(store, i) == Chosen(candidateParams(store, i), i)

\* a comparison that accepts whatever was read back
sameContentAlways(got) == TRUE

\* `string(got) != content`, negated: what was read is what was written
sameContent(got) == got = content

\* a delete whose error is dropped: the candidate is returned all the same
afterDeleteIgnoringErr(ok, store, i) == returnAlt(store, i)

\* what try returns after DeleteObject: `return nil, err` on error,
\* `return alt, nil` otherwise
afterDelete(ok, store, i) ==
    IF ok THEN returnAlt(store, i) ELSE Failed("delete error", "")

\* the SDK's default when retries are not suppressed: one attempt and two
\* retries of a failing operation
defaultMaxAttempts == 1 + 2

\* `retryMaxAttempts := 1`, passed to config.WithRetryMaxAttempts
retryMaxAttempts == 1

\* attempts of operation op logged for candidate c
attempts(log, c, op) ==
    Len(SelectSeq(log, LAMBDA o : o.cand = c /\ o.op = op))

\* the client attempts a failed operation again while attempts are left
retries(log, c, op) == attempts(log, c, op) < retryMaxAttempts

TryIdle ==
    /\ envVars = EmptyParams
    /\ envEndpoint = ""
    /\ tryStore = EmptyParams
    /\ tryIdx = 0
    /\ tryPc = "idle"
    /\ bucketObj = Absent
    /\ tryGot = ""
    /\ opsLog = <<>>
    /\ tryResult = NoResult

InitTry ==
    /\ envVars \in Environments
    /\ envEndpoint \in {"", Endpoint}
    /\ tryStore = EmptyParams
    /\ tryIdx = 0
    /\ tryPc = "start"
    /\ bucketObj = Absent
    /\ tryGot = ""
    /\ opsLog = <<>>
    /\ tryResult = NoResult

\* S3FromEnv up to the call of try
S3FromEnv ==
    /\ tryPc = "start"
    /\ LET creds == lookupEnv(envVars, <<AccountParam, SecretParam>>,
                              <<TokenParam, RegionParam>>) IN
       IF ~creds.ok
       THEN /\ tryResult' = Failed(ErrMissingParam, "")
            /\ tryPc' = "done"
            /\ UNCHANGED <<tryStore, tryIdx>>
       ELSE /\ tryStore' = initialParams(envVars, envEndpoint)
            /\ tryIdx' = 1
            /\ tryPc' = "loop"
            /\ UNCHANGED tryResult
    /\ UNCHANGED <<envVars, envEndpoint, bucketObj, tryGot, opsLog, genVars, runVars, pureVars>>

\* the range over candidateConfigs is exhausted: the error after the loop
TryExhausted ==
    /\ tryPc = "loop"
    /\ tryIdx > NumCandidates
    /\ tryResult' = Failed(ErrUnreachable, Dest)
    /\ tryPc' = "done"
    /\ UNCHANGED <<envVars, envEndpoint, tryStore, tryIdx, bucketObj, tryGot,
                   opsLog, genVars, runVars, pureVars>>

\* top of the loop body: build the client for the candidate
\* (config.LoadDefaultConfig may fail, which ends try)
TryLoadConfig(ok) ==
    /\ tryPc = "loop"
    /\ tryIdx <= NumCandidates
    /\ IF ok
       THEN /\ tryPc' = "list"
            /\ UNCHANGED tryResult
       ELSE /\ tryPc' = "done"
            /\ tryResult' = Failed("load config", "")
    /\ UNCHANGED <<envVars, envEndpoint, tryStore, tryIdx, bucketObj, tryGot,
                   opsLog, genVars, runVars, pureVars>>

\* ListObjectsV2: on error, continue with the next candidate
TryList(ok) ==
    /\ tryPc = "list"
    /\ opsLog' = Append(opsLog, Op(tryIdx, "list", ok))
    /\ IF ok
       THEN /\ tryPc' = "put"
            /\ UNCHANGED tryIdx
       ELSE IF retries(opsLog', tryIdx, "list")
       THEN UNCHANGED <<tryPc, tryIdx>>
       ELSE /\ tryPc' = "loop"
            /\ tryIdx' = continueWith(tryIdx)
    /\ UNCHANGED <<envVars, envEndpoint, tryStore, bucketObj, tryGot,
                   tryResult, genVars, runVars, pureVars>>

\* PutObject of the probe object: on error, continue with the next candidate
TryPut(ok) ==
    /\ tryPc = "put"
    /\ opsLog' = Append(opsLog, Op(tryIdx, "put", ok))
    /\ IF ok
       THEN /\ tryPc' = "get"
            /\ bucketObj' = content
            /\ UNCHANGED tryIdx
       ELSE IF retries(opsLog', tryIdx, "put")
       THEN UNCHANGED <<tryPc, tryIdx, bucketObj>>
       ELSE /\ tryPc' = "loop"
            /\ tryIdx' = continueWith(tryIdx)
            /\ UNCHANGED bucketObj
    /\ UNCHANGED <<envVars, envEndpoint, tryStore, tryGot, tryResult, genVars, runVars, pureVars>>

\* GetObject, io.ReadAll and the comparison with the content written:
\* r is "get error", "read error" or the bytes read back
TryGet(r) ==
    /\ tryPc = "get"
    /\ r \in {"get error", "read error", bucketObj, Garbage}
    /\ opsLog' = Append(opsLog, Op(tryIdx, "get", r = content))
    /\ IF r = "get error" /\ retries(opsLog', tryIdx, "get")
       THEN UNCHANGED <<tryPc, tryGot, tryResult>>
       ELSE IF r \in {"get error", "read error"}
       THEN /\ tryResult' = Failed(r, "")
            /\ tryPc' = "done"
            /\ UNCHANGED tryGot
       ELSE /\ tryGot' = r
            /\ IF ~sameContent(r)
               THEN /\ tryResult' = Failed("unexpected content", "")
                    /\ tryPc' = "done"
               ELSE /\ tryPc' = "delete"
                    /\ UNCHANGED tryResult
    /\ UNCHANGED <<envVars, envEndpoint, tryStore, tryIdx, bucketObj, genVars, runVars, pureVars>>

\* DeleteObject: on error try returns it, otherwise the candidate is returned
TryDelete(ok) ==
    /\ tryPc = "delete"
    /\ opsLog' = Append(opsLog, Op(tryIdx, "delete", ok))
    /\ IF ~ok /\ retries(opsLog', tryIdx, "delete")
       THEN UNCHANGED <<tryPc, tryResult>>
       ELSE /\ tryPc' = "done"
            /\ tryResult' = afterDelete(ok, tryStore, tryIdx)
    /\ IF ok
       THEN bucketObj' = Absent
       ELSE UNCHANGED bucketObj
    /\ UNCHANGED <<envVars, envEndpoint, tryStore, tryIdx, tryGot, genVars, runVars, pureVars>>

(***************************************************************************)
(* Properties of the candidate generator                                   *)
(***************************************************************************)
\* the toggles whose value in candidate c differs from the base
Applied(base, c) == {t \in Toggles : MapGet(c, t) # MapGet(base, t)}

\* C3: a fully consumed generator has yielded exactly 8 pairwise distinct
\* candidates; the first applies no toggle and the other seven apply the
\* seven distinct non-empty subsets of the three toggles.
C3_PowerSetOfToggles ==
    genState = "exhausted" =>
        /\ Len(genOut) = 8
        /\ \A i, j \in 1..Len(genOut) : i # j => genOut[i] # genOut[j]
        /\ Applied(genBase, genOut[1]) = {}
        /\ {Applied(genBase, genOut[i]) : i \in 2..Len(genOut)}
              = (SUBSET Toggles) \ {{}}

\* C4: when a toggle is "true" in the base, a fully consumed generator has
\* yielded 8 candidates, some with that toggle "false" and some with it "true".
C4_AlternateStateOfBaseToggle ==
    genState = "exhausted" =>
        \A t \in Toggles :
            MapGet(genBase, t) = "true" =>
                /\ Len(genOut) = 8
                /\ \E i \in 1..Len(genOut) : MapGet(genOut[i], t) = "false"
                /\ \E i \in 1..Len(genOut) : MapGet(genOut[i], t) = "true"

(***************************************************************************)
(* Properties of discovery                                                 *)
(***************************************************************************)
\* the list operations issued: one per probe started, in order
ListOps == SelectSeq(opsLog, LAMBDA o : o.op = "list")

\* the probe of candidate c was started
ProbeStarted(c) == \E i \in 1..Len(opsLog) : opsLog[i].cand = c

\* all four operations of the probe of candidate c succeeded
ProbeOk(c) ==
    \A op \in {"list", "put", "get", "delete"} :
        \E i \in 1..Len(opsLog) : opsLog[i] = Op(c, op, TRUE)

\* the probe of candidate c failed at list or at put
ProbeFailedLocally(c) ==
    \E i \in 1..Len(opsLog) :
        opsLog[i] \in {Op(c, "list", FALSE), Op(c, "put", FALSE)}

\* C1: when try returns a storage, the returned storage is candidate k, the
\* first candidate whose probe succeeded; probes were started for candidates
\* 1..k in generator order, one each, and the last operation issued is the
\* successful delete of candidate k (nothing is probed after the success).
C1_FirstSuccessReturned ==
    tryResult.kind = "storage" =>
        \E k \in 1..NumCandidates :
            /\ ProbeOk(k)
            /\ \A j \in 1..(k - 1) : ~ProbeOk(j)
            /\ Len(ListOps) = k
            /\ \A i \in 1..k : ListOps[i].cand = i
            /\ tryResult.idx = k
            /\ tryResult.params = candidateParams(tryStore, k)
            /\ opsLog[Len(opsLog)] = Op(k, "delete", TRUE)
            /\ tryPc = "done"

\* a success after two failing probes
C1_Witness ==
    /\ tryResult.kind = "storage"
    /\ tryResult.idx = 3
    /\ ProbeFailedLocally(1)
    /\ ProbeFailedLocally(2)

\* C2 as stated: when try has returned and every candidate was probed and no
\* probe succeeded, the result is the storage-unreachable error naming the
\* destination and exactly N probes were started.
C2_AllFailUnreachable ==
    (/\ tryPc = "done"
     /\ \A c \in 1..NumCandidates : ProbeStarted(c) /\ ~ProbeOk(c))
    => /\ tryResult = Failed(ErrUnreachable, Dest)
       /\ Len(ListOps) = NumCandidates

\* C2 amended: when try has returned and the probe of every candidate failed
\* at list or at put, the result is the storage-unreachable error naming the
\* destination, and exactly N probes were started, one per candidate, in order.
C2_AllLocalFailUnreachable ==
    (/\ tryPc = "done"
     /\ \A c \in 1..NumCandidates : ProbeFailedLocally(c))
    => /\ tryResult = Failed(ErrUnreachable, Dest)
       /\ Len(ListOps) = NumCandidates
       /\ \A i \in 1..NumCandidates : ListOps[i].cand = i

\* every candidate failed, some at list and some at put
C2_Witness ==
    /\ tryPc = "done"
    /\ \A c \in 1..NumCandidates : ProbeFailedLocally(c)
    /\ \E i \in 1..Len(opsLog) : opsLog[i].op = "put"
    /\ tryResult.kind = "error"

(***************************************************************************)
(* One run of the s3 command: cmd/s3/s3.go, internal/validate,             *)
(* internal/workload, internal/db                                          *)
(***************************************************************************)
\* validate.go: size of the connection pool
maxConns == 10
expectedBackupCount == 2
expectedBackupCollections == 1
expectedFullBackupCount == 1

\* largest --workers value explored
MaxWorkers == 1
\* rows of the source table from which on no Workload.Run loop is followed
\* on its tick any more
MaxWrites == 2

\* the Workload.Run goroutines: 0 is the initial burst, w that of worker w
Runs == 0..MaxWorkers
Workers == 1..MaxWorkers

DatabaseURL == "postgresql://root@localhost:26257?sslmode=disable"

\* the flag values explored
Envs ==
    [Guess : BOOLEAN, Workers : -1..MaxWorkers, WorkloadDuration : {-1, 0, 1},
     DatabaseURL : {"", DatabaseURL}]

\* the storage discovery returns in the runs explored: the path-style candidate
\* of an environment holding the two credentials and a token
DiscoveredStore ==
    candidateParams(
        initialParams([k \in {AccountParam, SecretParam, TokenParam} |-> "cockroach"],
                      Endpoint), 4)

\* a nil *env.Env and a nil blob.Storage
NilEnv == [nil |-> TRUE]
NilStorage == [nil |-> TRUE]

\* a preflight that accepts every input
preflightLenient(envNil, storageNil, e) == ""

\* preflight: "" when the input is accepted, the error otherwise
preflight(envNil, storageNil, e) ==
    IF envNil THEN "environment cannot be nil"
    ELSE IF storageNil THEN "blob storage cannot be nil"
    ELSE IF e.DatabaseURL = "" THEN "database URL cannot be empty"
    ELSE IF e.Workers < 0 THEN "workers count cannot be negative"
    ELSE IF e.WorkloadDuration <= 0 THEN "workload duration must be positive"
    ELSE ""

\* validate.Report
Report(params, st) == [present |-> TRUE, params |-> params, stats |-> st]
NoReport == [present |-> FALSE, params |-> EmptyParams, stats |-> <<>>]

\* what RunE returned: its error ("" for nil) and the report it printed
Returned(err, report) == [returned |-> TRUE, err |-> err, printed |-> report]
NotReturned == [returned |-> FALSE, err |-> "", printed |-> NoReport]

\* what Validate returned
ValNone == [kind |-> "none", step |-> "", err |-> "", report |-> NoReport]
ValReport(r) == [kind |-> "report", step |-> "", err |-> "", report |-> r]
ValError(step, err) == [kind |-> "error", step |-> step, err |-> err, report |-> NoReport]
ValStopped(err) == [kind |-> "stopped", step |-> "", err |-> err, report |-> NoReport]

\* what Clean returned
CleanNone == [returned |-> FALSE, acquireErr |-> FALSE, e1 |-> "", errs |-> {}]

\* the cluster before the run: nothing of an earlier run is left, except
\* possibly an external connection of the reserved name; oldVersion is
\* whether its version is below MinVersionForStats (such clusters are
\* explored on runs without workers); pendingJobs is the number of
\* unfinished jobs that refer to the source table
InitDb(ext, old) ==
    [srcDb |-> FALSE, restoredDb |-> FALSE, extConn |-> ext, srcRows |-> 0,
     backups |-> <<>>, restoredRows |-> -1, oldVersion |-> old,
     pendingJobs |-> 0]

\* the clusters a run may find
InitDbs ==
    {[InitDb(ext, old) EXCEPT !.pendingJobs = n] :
        ext \in BOOLEAN, old \in BOOLEAN, n \in 0..1}

RunIdle ==
    /\ runEnv = [Guess |-> FALSE, Workers |-> 0, WorkloadDuration |-> 0, DatabaseURL |-> ""]
    /\ mainPc = "idle"
    /\ blobStorage = EmptyParams
    /\ stepIdx = 0
    /\ spawnIdx = 0
    /\ stopping = FALSE
    /\ inUse = 0
    /\ runPc = [r \in Runs |-> "idle"]
    /\ doneClosed = [r \in Runs |-> FALSE]
    /\ wPc = [w \in Workers |-> "idle"]
    /\ bPc = "idle"
    /\ wg = 0
    /\ db = InitDb(FALSE, FALSE)
    /\ stats = <<>>
    /\ issued = <<>>
    /\ phaseLog = <<>>
    /\ phaseErrs = {}
    /\ integrity = "none"
    /\ dropDeferred = FALSE
    /\ valResult = ValNone
    /\ cleanLog = <<>>
    /\ cleanResult = CleanNone
    /\ cmdResult = NotReturned

InitRun ==
    /\ runEnv \in Envs
    /\ mainPc = "start"
    /\ blobStorage = EmptyParams
    /\ stepIdx = 0
    /\ spawnIdx = 0
    /\ stopping = FALSE
    /\ inUse = 0
    /\ runPc = [r \in Runs |-> "idle"]
    /\ doneClosed = [r \in Runs |-> FALSE]
    /\ wPc = [w \in Workers |-> "idle"]
    /\ bPc = "idle"
    /\ wg = 0
    /\ db \in InitDbs
    /\ db.oldVersion => runEnv.Workers <= 0
    /\ stats = <<>>
    /\ issued = <<>>
    /\ phaseLog = <<>>
    /\ phaseErrs = {}
    /\ integrity = "none"
    /\ dropDeferred = FALSE
    /\ valResult = ValNone
    /\ cleanLog = <<>>
    /\ cleanResult = CleanNone
    /\ cmdResult = NotReturned

\* RunE returns err without having created a Validator: no Clean is deferred
ExitWith(err, report) ==
    /\ cmdResult' = Returned(err, report)
    /\ mainPc' = "exit"

\* a Release that keeps the connection checked out
ReleaseNever(n) == n

\* conn.Release(): the connection goes back to the pool; n is the number of
\* connections checked out
Release(n) == n - 1

\* a command that ignores the guess flag
guessOnlyNever(e) == FALSE

\* `if env.Guess`: the command stops after discovery
guessOnly(e) == e.Guess

\* RunE: the signal handler is installed, then S3FromEnv; with --guess the
\* suggested parameters are printed and RunE returns
CmdS3FromEnv(ok) ==
    /\ mainPc = "start"
    /\ IF ~ok
       THEN /\ ExitWith("discovery failed", NoReport)
            /\ UNCHANGED blobStorage
       ELSE /\ blobStorage' = DiscoveredStore
            /\ IF guessOnly(runEnv)
               THEN ExitWith("", Report(Params(DiscoveredStore), <<>>))
               ELSE /\ mainPc' = "new"
                    /\ UNCHANGED cmdResult
    /\ UNCHANGED <<genVars, tryVars, pureVars, runEnv, stepIdx, spawnIdx, stopping,
                   inUse, runPc, doneClosed, wPc, bPc, wg, db,
                   stats, issued, phaseLog, phaseErrs, integrity,
                   dropDeferred, valResult, cleanLog, cleanResult>>

\* New: preflight
NewPreflight ==
    /\ mainPc = "new"
    /\ LET e == preflight(runEnv = NilEnv, blobStorage = NilStorage, runEnv) IN
       IF e # "" THEN ExitWith(e, NoReport)
       ELSE /\ mainPc' = "newPool"
            /\ UNCHANGED cmdResult
    /\ UNCHANGED <<genVars, tryVars, pureVars, runEnv, blobStorage, stepIdx, spawnIdx,
                   stopping, inUse, runPc, doneClosed, wPc, bPc,
                   wg, db, stats, issued, phaseLog, phaseErrs, integrity,
                   dropDeferred, valResult, cleanLog, cleanResult>>

\* New: pgxpool.ParseConfig and pgxpool.NewWithConfig
NewPool(ok) ==
    /\ mainPc = "newPool"
    /\ IF ok THEN mainPc' = "newAcquire" /\ UNCHANGED cmdResult
       ELSE ExitWith("failed to create database pool", NoReport)
    /\ UNCHANGED <<genVars, tryVars, pureVars, runEnv, blobStorage, stepIdx, spawnIdx,
                   stopping, inUse, runPc, doneClosed, wPc, bPc,
                   wg, db, stats, issued, phaseLog, phaseErrs, integrity,
                   dropDeferred, valResult, cleanLog, cleanResult>>

\* New: pool.Acquire
NewAcquire(ok) ==
    /\ mainPc = "newAcquire"
    /\ IF ok
       THEN /\ inUse < maxConns
            /\ inUse' = inUse + 1
            /\ mainPc' = "newSourceDb"
            /\ UNCHANGED cmdResult
       ELSE /\ ExitWith("failed to acquire database connection", NoReport)
            /\ UNCHANGED inUse
    /\ UNCHANGED <<genVars, tryVars, pureVars, runEnv, blobStorage, stepIdx, spawnIdx,
                   stopping, runPc, doneClosed, wPc, bPc, wg, db,
                   stats, issued, phaseLog, phaseErrs, integrity,
                   dropDeferred, valResult, cleanLog, cleanResult>>

\* New returns an error: the deferred conn.Release runs, no Validator exists
NewFails(err) ==
    /\ inUse' = Release(inUse)
    /\ ExitWith(err, NoReport)

\* createSourceTable: source.Create
NewCreateSourceDb(ok) ==
    /\ mainPc = "newSourceDb"
    /\ IF ok
       THEN /\ db' = [db EXCEPT !.srcDb = TRUE]
            /\ mainPc' = "newSourceTable"
            /\ UNCHANGED <<inUse, cmdResult>>
       ELSE /\ NewFails("failed to create source database")
            /\ UNCHANGED db
    /\ UNCHANGED <<genVars, tryVars, pureVars, runEnv, blobStorage, stepIdx, spawnIdx,
                   stopping, runPc, doneClosed, wPc, bPc, wg,
                   stats, issued, phaseLog, phaseErrs, integrity,
                   dropDeferred, valResult, cleanLog, cleanResult>>

\* createSourceTable: sourceTable.Create
NewCreateSourceTable(ok) ==
    /\ mainPc = "newSourceTable"
    /\ IF ok
       THEN /\ mainPc' = "newPendingJobs"
            /\ UNCHANGED <<inUse, cmdResult>>
       ELSE NewFails("failed to create source table")
    /\ UNCHANGED <<genVars, tryVars, pureVars, runEnv, blobStorage, stepIdx, spawnIdx,
                   stopping, runPc, doneClosed, wPc, bPc, wg, db,
                   stats, issued, phaseLog, phaseErrs, integrity,
                   dropDeferred, valResult, cleanLog, cleanResult>>

\* a check that lets any number of pending jobs pass
hasPendingJobsNever(n) == FALSE

\* len(pendingJobs) > 0
hasPendingJobs(n) == n > 0

\* New: sourceTable.PendingJobs, whose query fails or returns the unfinished
\* jobs on the source table
NewPendingJobs(ok) ==
    /\ mainPc = "newPendingJobs"
    /\ CASE ~ok ->
              NewFails("failed to check for pending jobs on source table")
         [] ok /\ hasPendingJobs(db.pendingJobs) ->
              NewFails("pending jobs found on source table")
         [] OTHER ->
              /\ mainPc' = "newRestoredDb"
              /\ UNCHANGED <<inUse, cmdResult>>
    /\ UNCHANGED <<genVars, tryVars, pureVars, runEnv, blobStorage, stepIdx, spawnIdx,
                   stopping, runPc, doneClosed, wPc, bPc, wg, db,
                   stats, issued, phaseLog, phaseErrs, integrity,
                   dropDeferred, valResult, cleanLog, cleanResult>>

\* createRestoredTable: dest.Create; on success New returns the Validator,
\* releases its connection, and RunE defers Clean
NewCreateRestoredDb(ok) ==
    /\ mainPc = "newRestoredDb"
    /\ IF ok
       THEN /\ db' = [db EXCEPT !.restoredDb = TRUE]
            /\ inUse' = Release(inUse)
            /\ mainPc' = "valAcquire"
            /\ UNCHANGED cmdResult
       ELSE /\ NewFails("failed to create restored database")
            /\ UNCHANGED db
    /\ UNCHANGED <<genVars, tryVars, pureVars, runEnv, blobStorage, stepIdx, spawnIdx,
                   stopping, runPc, doneClosed, wPc, bPc, wg,
                   stats, issued, phaseLog, phaseErrs, integrity,
                   dropDeferred, valResult, cleanLog, cleanResult>>

(***************************************************************************)
(* Validator.Validate: external connection, then the validation steps      *)
(***************************************************************************)
\* the names of the validation steps, in the order of the steps slice
Steps ==
    <<"capture initial stats", "workload with backup", "incremental backup",
      "check backups", "restore", "verify integrity">>

\* where each step function starts
StepPc ==
    <<"statsAcquire", "burstSpawn", "incrAcquire", "checkAcquire",
      "restoreAcquire", "verifyAcquire">>

NumSteps == Len(Steps)

\* the rows CHECK EXTERNAL CONNECTION returns on the one-node cluster explored
StatsRows == <<[Node |-> 1, ErrStr |-> ""]>>

\* Validate returns res: its deferred calls run next (extConn.Drop when it
\* was registered, then conn.Release)
ValReturn(res) ==
    /\ valResult' = res
    /\ mainPc' = IF dropDeferred THEN "deferDropShow" ELSE "valRelease"

\* a loop that carries on with the next step whatever the step returned
stepAbortsNever(err) == FALSE

\* `if err := step.fn(ctx, extConn); err != nil`: the step aborts the run
stepAborts(err) == err # ""

\* the step function the loop is at returns err ("" for nil)
FinishStep(err) ==
    /\ phaseErrs' = IF err # "" THEN phaseErrs \cup {Steps[stepIdx]} ELSE phaseErrs
    /\ IF stepAborts(err)
       THEN /\ ValReturn(ValError(Steps[stepIdx], err))
            /\ UNCHANGED stepIdx
       ELSE /\ mainPc' = "loop"
            /\ stepIdx' = stepIdx + 1
            /\ UNCHANGED valResult

\* the step function returns err after its deferred conn.Release
ReleaseAndFinishStep(err) ==
    /\ inUse' = Release(inUse)
    /\ FinishStep(err)

\* errors.Wrap(err, "failed to create external connection") around the error
\* NewExternalConn returned
ExtConnError(err) == "failed to create external connection: " \o err

\* Validate: acquireConn
ValAcquire(ok) ==
    /\ mainPc = "valAcquire"
    /\ IF ok
       THEN /\ inUse < maxConns
            /\ inUse' = inUse + 1
            /\ mainPc' = "extShow"
            /\ UNCHANGED valResult
       ELSE /\ valResult' = ValError("", "failed to acquire database connection")
            /\ mainPc' = "valReturned"
            /\ UNCHANGED inUse
    /\ UNCHANGED <<genVars, tryVars, pureVars, runEnv, blobStorage, stepIdx, spawnIdx,
                   stopping, runPc, doneClosed, wPc, bPc, wg, db,
                   stats, issued, phaseLog, phaseErrs, integrity,
                   dropDeferred, cleanLog, cleanResult, cmdResult>>

\* a Drop that returns nil after its query whatever the query found
afterShowSkipDrop(found) == "extCreate"

\* Drop after its query: no row (pgx.ErrNoRows) is success and NewExternalConn
\* goes on to create; a row found is followed by the DROP statement
afterShow(found) == IF found THEN "extDropExec" ELSE "extCreate"

\* NewExternalConn: extConn.Drop, the SHOW EXTERNAL CONNECTIONS query
ExtDropShow(ok) ==
    /\ mainPc = "extShow"
    /\ IF ~ok
       THEN ValReturn(ValError("", ExtConnError("query failed")))
       ELSE /\ mainPc' = afterShow(db.extConn)
            /\ UNCHANGED valResult
    /\ UNCHANGED <<genVars, tryVars, pureVars, runEnv, blobStorage, stepIdx, spawnIdx,
                   stopping, inUse, runPc, doneClosed, wPc, bPc,
                   wg, db, stats, issued, phaseLog, phaseErrs, integrity,
                   dropDeferred, cleanLog, cleanResult, cmdResult>>

\* NewExternalConn: extConn.Drop, the DROP EXTERNAL CONNECTION statement
ExtDropExec(ok) ==
    /\ mainPc = "extDropExec"
    /\ IF ok
       THEN /\ db' = [db EXCEPT !.extConn = FALSE]
            /\ mainPc' = "extCreate"
            /\ UNCHANGED valResult
       ELSE /\ ValReturn(ValError("", ExtConnError("drop failed")))
            /\ UNCHANGED db
    /\ UNCHANGED <<genVars, tryVars, pureVars, runEnv, blobStorage, stepIdx, spawnIdx,
                   stopping, inUse, runPc, doneClosed, wPc, bPc,
                   wg, stats, issued, phaseLog, phaseErrs, integrity,
                   dropDeferred, cleanLog, cleanResult, cmdResult>>

\* ExternalConn.create: the CREATE EXTERNAL CONNECTION statement
ExtCreate(ok) ==
    /\ mainPc = "extCreate"
    /\ IF ok
       THEN /\ db' = [db EXCEPT !.extConn = TRUE]
            /\ mainPc' = "extList"
            /\ UNCHANGED valResult
       ELSE /\ ValReturn(ValError("", ExtConnError("create failed")))
            /\ UNCHANGED db
    /\ UNCHANGED <<genVars, tryVars, pureVars, runEnv, blobStorage, stepIdx, spawnIdx,
                   stopping, inUse, runPc, doneClosed, wPc, bPc,
                   wg, stats, issued, phaseLog, phaseErrs, integrity,
                   dropDeferred, cleanLog, cleanResult, cmdResult>>

\* a create that returns nil whatever its listing returned
createResultIgnoreListing(listOk) == ""

\* what ExternalConn.create returns once its CREATE succeeded: nil when the
\* listing succeeded, a new error in place of the listing's otherwise
createResult(listOk) == IF listOk THEN "" ELSE "external connection failed"

\* ExternalConn.create: ListTableBackups as a check; when it succeeds
\* NewExternalConn returns, Validate defers extConn.Drop and enters the loop
ExtList(ok) ==
    /\ mainPc = "extList"
    /\ IF createResult(ok) = ""
       THEN /\ dropDeferred' = TRUE
            /\ stepIdx' = 1
            /\ mainPc' = "loop"
            /\ UNCHANGED valResult
       ELSE /\ ValReturn(ValError("", ExtConnError(createResult(ok))))
            /\ UNCHANGED <<dropDeferred, stepIdx>>
    /\ UNCHANGED <<genVars, tryVars, pureVars, runEnv, blobStorage, spawnIdx, stopping,
                   inUse, runPc, doneClosed, wPc, bPc, wg, db,
                   stats, issued, phaseLog, phaseErrs, integrity, cleanLog,
                   cleanResult, cmdResult>>

\* a stop check that never sees the stop
IsStoppingNever == FALSE

\* ctx.IsStopping(): Stop was called on the validator's context
IsStopping == stopping

\* top of the loop over steps: the stop check (ctxErr is what ctx.Err()
\* returns then: nil until the context is cancelled), then the step starts
StepBegin(ctxErr) ==
    /\ mainPc = "loop"
    /\ stepIdx <= NumSteps
    /\ IF IsStopping
       THEN /\ ValReturn(ValStopped(ctxErr))
            /\ UNCHANGED phaseLog
       ELSE /\ ctxErr = ""
            /\ phaseLog' = Append(phaseLog, Steps[stepIdx])
            /\ mainPc' = StepPc[stepIdx]
            /\ UNCHANGED valResult
    /\ UNCHANGED <<genVars, tryVars, pureVars, runEnv, blobStorage, stepIdx, spawnIdx,
                   stopping, inUse, runPc, doneClosed, wPc, bPc,
                   wg, db, stats, issued, phaseErrs, integrity,
                   dropDeferred, cleanLog, cleanResult, cmdResult>>

\* after the last step: Validate returns the Report
ValReturnReport ==
    /\ mainPc = "loop"
    /\ stepIdx > NumSteps
    /\ ValReturn(ValReport(Report(Params(blobStorage), stats)))
    /\ UNCHANGED <<genVars, tryVars, pureVars, runEnv, blobStorage, stepIdx, spawnIdx,
                   stopping, inUse, runPc, doneClosed, wPc, bPc,
                   wg, db, stats, issued, phaseLog, phaseErrs, integrity,
                   dropDeferred, cleanLog, cleanResult, cmdResult>>

\* acquireConn at the start of captureInitialStats, runIncrementalBackup,
\* checkBackups and performRestore
StepAcquire(ok) ==
    /\ mainPc \in {"statsAcquire", "incrAcquire", "checkAcquire", "restoreAcquire"}
    /\ IF ok
       THEN /\ inUse < maxConns
            /\ inUse' = inUse + 1
            /\ mainPc' = CASE mainPc = "statsAcquire" -> "statsExec"
                           [] mainPc = "incrAcquire" -> "incrExec"
                           [] mainPc = "checkAcquire" -> "checkExec"
                           [] OTHER -> "restoreExec"
            /\ UNCHANGED <<phaseErrs, valResult, stepIdx>>
       ELSE /\ FinishStep("failed to acquire database connection")
            /\ UNCHANGED inUse
    /\ UNCHANGED <<genVars, tryVars, pureVars, runEnv, blobStorage, spawnIdx, stopping,
                   runPc, doneClosed, wPc, bPc, wg, db, stats,
                   issued, phaseLog, integrity, dropDeferred, cleanLog,
                   cleanResult, cmdResult>>

\* a version check that every cluster passes
MinVersionAlways(old) == TRUE

\* version.MinVersion(MinVersionForStats), old being whether the cluster's
\* version is below v25.1.0
MinVersion(old) == ~old

\* captureInitialStats: extConn.Stats; r is "version error", "query error"
\* or "rows"
StatsExec(r) ==
    /\ mainPc = "statsExec"
    /\ CASE r = "version error" \/ (r = "query error" /\ MinVersion(db.oldVersion)) ->
              /\ ReleaseAndFinishStep("failed to capture initial statistics")
              /\ UNCHANGED stats
         [] ~MinVersion(db.oldVersion) ->
              /\ stats' = <<>>
              /\ ReleaseAndFinishStep("")
         [] OTHER ->
              /\ stats' = StatsRows
              /\ ReleaseAndFinishStep("")
    /\ UNCHANGED <<genVars, tryVars, pureVars, runEnv, blobStorage, spawnIdx, stopping,
                   runPc, doneClosed, wPc, bPc, wg, db, issued,
                   phaseLog, integrity, dropDeferred, cleanLog,
                   cleanResult, cmdResult>>

(***************************************************************************)
(* Step "workload with backup": runWorkloadWithBackup, the worker tasks,   *)
(* the full-backup task and the Workload.Run goroutines                    *)
(***************************************************************************)
\* ctx.Go: the function is run in a new goroutine unless Stop was called
\* before; pc is where the goroutine starts, cur where it stays otherwise
GoAccepted(cur, pc) == IF stopping THEN cur ELSE pc

\* a goroutine started by ctx.Go returns err: an error stops the context
GoReturns(err) == stopping' = (stopping \/ err # "")

\* a Stopping channel that is never closed
StoppingNeverClosed == FALSE

\* the channel ctx.Stopping() is closed, and so ready in a select, once Stop
\* was called
StoppingClosed == stopping

\* a select whose timer branch may be taken whatever else is ready
selectTickAnyway(otherReady) == TRUE

\* the timer branch of a select (time.Tick of a positive duration, created by
\* the select itself) is taken only while no other branch is ready: a closed
\* done channel or a raised stop signal wins over it
selectTick(otherReady) == ~otherReady

\* runWorkload of the initial burst: ctx.Go of its Workload.Run
BurstSpawn ==
    /\ mainPc = "burstSpawn"
    /\ runPc' = [runPc EXCEPT ![0] = GoAccepted(@, "acquire")]
    /\ mainPc' = "burstSelect"
    /\ UNCHANGED <<genVars, tryVars, pureVars, runEnv, blobStorage, stepIdx, spawnIdx,
                   stopping, inUse, doneClosed, wPc, bPc, wg, db,
                   stats, issued, phaseLog, phaseErrs, integrity,
                   dropDeferred, valResult, cleanLog, cleanResult,
                   cmdResult>>

\* runWorkload of the initial burst: the select between the duration tick,
\* which closes done, and ctx.Stopping(); then runConcurrentWorkloadAndBackup
BurstSelect(branch) ==
    /\ mainPc = "burstSelect"
    /\ \/ /\ branch = "tick"
          /\ selectTick(stopping)
          /\ doneClosed' = [doneClosed EXCEPT ![0] = TRUE]
       \/ branch = "stop" /\ StoppingClosed /\ UNCHANGED doneClosed
    /\ spawnIdx' = 1
    /\ mainPc' = "spawn"
    /\ UNCHANGED <<genVars, tryVars, pureVars, runEnv, blobStorage, stepIdx, stopping,
                   inUse, runPc, wPc, bPc, wg, db, stats, issued,
                   phaseLog, phaseErrs, integrity, dropDeferred, valResult,
                   cleanLog, cleanResult, cmdResult>>

\* one iteration of the loop over workers: g.Add(1), ctx.Go of the worker
SpawnWorker ==
    /\ mainPc = "spawn"
    /\ spawnIdx <= runEnv.Workers
    /\ wg' = wg + 1
    /\ wPc' = [wPc EXCEPT ![spawnIdx] = GoAccepted(@, "start")]
    /\ spawnIdx' = spawnIdx + 1
    /\ UNCHANGED <<genVars, tryVars, pureVars, runEnv, mainPc, blobStorage, stepIdx,
                   stopping, inUse, runPc, doneClosed, bPc, db,
                   stats, issued, phaseLog, phaseErrs, integrity,
                   dropDeferred, valResult, cleanLog, cleanResult,
                   cmdResult>>

\* after the loop: g.Add(1), ctx.Go of the full-backup task; then g.Wait
SpawnBackup ==
    /\ mainPc = "spawn"
    /\ spawnIdx > runEnv.Workers
    /\ wg' = wg + 1
    /\ bPc' = GoAccepted(bPc, "acquire")
    /\ mainPc' = "wait"
    /\ UNCHANGED <<genVars, tryVars, pureVars, runEnv, blobStorage, stepIdx, spawnIdx,
                   stopping, inUse, runPc, doneClosed, wPc, db,
                   stats, issued, phaseLog, phaseErrs, integrity,
                   dropDeferred, valResult, cleanLog, cleanResult,
                   cmdResult>>

\* g.Wait returns; runWorkloadWithBackup returns nil
WaitGroupWait ==
    /\ mainPc = "wait"
    /\ wg = 0
    /\ FinishStep("")
    /\ UNCHANGED <<genVars, tryVars, pureVars, runEnv, blobStorage, spawnIdx, stopping,
                   inUse, runPc, doneClosed, wPc, bPc, wg, db,
                   stats, issued, phaseLog, integrity, dropDeferred,
                   cleanLog, cleanResult, cmdResult>>

\* worker task: runWorkloadWorker calls runWorkload, which spawns Workload.Run
WorkerStart(w) ==
    /\ mainPc # "exit"
    /\ wPc[w] = "start"
    /\ runPc' = [runPc EXCEPT ![w] = GoAccepted(@, "acquire")]
    /\ wPc' = [wPc EXCEPT ![w] = "select"]
    /\ UNCHANGED <<genVars, tryVars, pureVars, runEnv, mainPc, blobStorage, stepIdx,
                   spawnIdx, stopping, inUse, doneClosed, bPc, wg,
                   db, stats, issued, phaseLog, phaseErrs, integrity,
                   dropDeferred, valResult, cleanLog, cleanResult,
                   cmdResult>>

\* worker task: the select of runWorkload, then the deferred g.Done
WorkerSelect(w, branch) ==
    /\ mainPc # "exit"
    /\ wPc[w] = "select"
    /\ \/ /\ branch = "tick"
          /\ selectTick(stopping)
          /\ doneClosed' = [doneClosed EXCEPT ![w] = TRUE]
       \/ branch = "stop" /\ StoppingClosed /\ UNCHANGED doneClosed
    /\ wg' = wg - 1
    /\ wPc' = [wPc EXCEPT ![w] = "done"]
    /\ UNCHANGED <<genVars, tryVars, pureVars, runEnv, mainPc, blobStorage, stepIdx,
                   spawnIdx, stopping, inUse, runPc, bPc, db,
                   stats, issued, phaseLog, phaseErrs, integrity,
                   dropDeferred, valResult, cleanLog, cleanResult,
                   cmdResult>>

\* Workload.Run goroutine: pool.Acquire
RunAcquire(r, ok) ==
    /\ mainPc # "exit"
    /\ runPc[r] = "acquire"
    /\ IF ok
       THEN /\ inUse < maxConns
            /\ inUse' = inUse + 1
            /\ runPc' = [runPc EXCEPT ![r] = "upsert"]
            /\ UNCHANGED stopping
       ELSE /\ runPc' = [runPc EXCEPT ![r] = "noconn"]
            /\ GoReturns("acquire")
            /\ UNCHANGED inUse
    /\ UNCHANGED <<genVars, tryVars, pureVars, runEnv, mainPc, blobStorage, stepIdx,
                   spawnIdx, doneClosed, wPc, bPc, wg, db, stats,
                   issued, phaseLog, phaseErrs, integrity, dropDeferred,
                   valResult, cleanLog, cleanResult, cmdResult>>

\* a loop that logs the write error and goes on to its select
afterWriteErrorContinue == "select"

\* `if err != nil { ...; return err }` after the Upsert: Run has returned the
\* error
afterWriteError == "failed"

\* Workload.Run: the Upsert of key Prefix-idx; an error ends the loop
RunUpsert(r, ok) ==
    /\ mainPc # "exit"
    /\ runPc[r] = "upsert"
    /\ IF ok
       THEN /\ db.srcDb
            /\ db' = [db EXCEPT !.srcRows = @ + 1]
            /\ runPc' = [runPc EXCEPT ![r] = "select"]
            /\ UNCHANGED <<inUse, stopping>>
       ELSE /\ runPc' = [runPc EXCEPT ![r] = afterWriteError]
            /\ inUse' = Release(inUse)
            /\ GoReturns("upsert")
            /\ UNCHANGED db
    /\ UNCHANGED <<genVars, tryVars, pureVars, runEnv, mainPc, blobStorage, stepIdx,
                   spawnIdx, doneClosed, wPc, bPc, wg, stats, issued,
                   phaseLog, phaseErrs, integrity, dropDeferred, valResult,
                   cleanLog, cleanResult, cmdResult>>

\* Workload.Run: the select after a write
RunSelect(r, branch) ==
    /\ mainPc # "exit"
    /\ runPc[r] = "select"
    /\ \/ /\ branch = "done"
          /\ doneClosed[r]
          /\ runPc' = [runPc EXCEPT ![r] = "done"]
          /\ inUse' = Release(inUse)
       \/ /\ branch = "stop"
          /\ StoppingClosed
          /\ runPc' = [runPc EXCEPT ![r] = "done"]
          /\ inUse' = Release(inUse)
       \/ /\ branch = "tick"
          /\ selectTick(doneClosed[r] \/ stopping)
          /\ db.srcRows < MaxWrites
          /\ runPc' = [runPc EXCEPT ![r] = "upsert"]
          /\ UNCHANGED inUse
    /\ UNCHANGED <<genVars, tryVars, pureVars, runEnv, mainPc, blobStorage, stepIdx,
                   spawnIdx, stopping, doneClosed, wPc, bPc, wg,
                   db, stats, issued, phaseLog, phaseErrs, integrity,
                   dropDeferred, valResult, cleanLog, cleanResult,
                   cmdResult>>

\* the backup collections under the external connection: one per full backup
ListTableBackups(bk) == {i \in 1..Len(bk) : bk[i].full}

\* SHOW BACKUP of collection c: its full backup and the incrementals after
\* it, ordered by end time, latest first
BackupInfo(bk, c) ==
    LET later == {j \in ListTableBackups(bk) : j > c}
        hi == IF later = {} THEN Len(bk)
              ELSE (CHOOSE j \in later : \A k \in later : j <= k) - 1
        n == hi - c + 1
    IN  [i \in 1..n |-> bk[hi + 1 - i]]

\* a Backup that never asks for LATEST IN
backupStmtNoMod(incremental) == "full"

\* KvTable.Backup: the BACKUP statement it issues, with LATEST IN when
\* incremental
backupStmt(incremental) == IF incremental THEN "incremental" ELSE "full"

\* the backups under the external connection after statement stmt succeeded
Backed(bk, stmt, rows) == Append(bk, [full |-> (stmt = "full"), rows |-> rows])

\* whether the cluster can carry out stmt: the source database exists, and
\* INTO LATEST IN finds a completed full backup
CanBackup(stmt) ==
    /\ db.srcDb
    /\ stmt = "incremental" => ListTableBackups(db.backups) # {}

\* full-backup task: runFullBackup, acquireConn; on an error the deferred
\* g.Done runs before the task function returns the error
BackupAcquire(ok) ==
    /\ mainPc # "exit"
    /\ bPc = "acquire"
    /\ IF ok
       THEN /\ inUse < maxConns
            /\ inUse' = inUse + 1
            /\ bPc' = "exec"
            /\ UNCHANGED wg
       ELSE /\ bPc' = "failed"
            /\ wg' = wg - 1
            /\ UNCHANGED inUse
    /\ UNCHANGED <<genVars, tryVars, pureVars, runEnv, mainPc, blobStorage,
                   stepIdx, spawnIdx, stopping, runPc, doneClosed, wPc, db,
                   stats, issued, phaseLog, phaseErrs, integrity,
                   dropDeferred, valResult, cleanLog, cleanResult,
                   cmdResult>>

\* full-backup task: the BACKUP statement, conn.Release, g.Done
BackupExec(ok) ==
    /\ mainPc # "exit"
    /\ bPc = "exec"
    /\ issued' = Append(issued, backupStmt(FALSE))
    /\ IF ok
       THEN /\ CanBackup(backupStmt(FALSE))
            /\ db' = [db EXCEPT !.backups = Backed(@, backupStmt(FALSE), db.srcRows)]
            /\ bPc' = "done"
       ELSE /\ bPc' = "failed"
            /\ UNCHANGED db
    /\ inUse' = Release(inUse)
    /\ wg' = wg - 1
    /\ UNCHANGED <<genVars, tryVars, pureVars, runEnv, mainPc, blobStorage,
                   stepIdx, spawnIdx, stopping, runPc, doneClosed, wPc,
                   stats, phaseLog, phaseErrs, integrity, dropDeferred,
                   valResult, cleanLog, cleanResult, cmdResult>>

\* full-backup task: its function has returned an error to ctx.Go, which
\* stops the context
BackupStop ==
    /\ mainPc # "exit"
    /\ bPc = "failed"
    /\ GoReturns("failed to create full backup")
    /\ bPc' = "done"
    /\ UNCHANGED <<genVars, tryVars, pureVars, runEnv, mainPc, blobStorage,
                   stepIdx, spawnIdx, inUse, runPc, doneClosed, wPc, wg,
                   db, stats, issued, phaseLog, phaseErrs, integrity,
                   dropDeferred, valResult, cleanLog, cleanResult,
                   cmdResult>>

\* the signal handler goroutine: SIGTERM or SIGINT arrives, ctx.Stop(0)
Signal ==
    /\ mainPc \notin {"idle", "exit"}
    /\ ~stopping
    /\ stopping' = TRUE
    /\ UNCHANGED <<genVars, tryVars, pureVars, runEnv, mainPc, blobStorage, stepIdx,
                   spawnIdx, inUse, runPc, doneClosed, wPc, bPc,
                   wg, db, stats, issued, phaseLog, phaseErrs, integrity,
                   dropDeferred, valResult, cleanLog, cleanResult,
                   cmdResult>>

(***************************************************************************)
(* Steps "incremental backup", "check backups", "restore" and              *)
(* "verify integrity"                                                      *)
(***************************************************************************)
\* runIncrementalBackup: the BACKUP statement of Backup(incremental = true)
IncrExec(ok) ==
    /\ mainPc = "incrExec"
    /\ issued' = Append(issued, backupStmt(TRUE))
    /\ IF ok
       THEN /\ CanBackup(backupStmt(TRUE))
            /\ db' = [db EXCEPT !.backups = Backed(@, backupStmt(TRUE), db.srcRows)]
            /\ ReleaseAndFinishStep("")
       ELSE /\ ReleaseAndFinishStep("failed to create incremental backup")
            /\ UNCHANGED db
    /\ UNCHANGED <<genVars, tryVars, pureVars, runEnv, blobStorage, spawnIdx,
                   stopping, runPc, doneClosed, wPc, bPc, wg, stats,
                   phaseLog, integrity, dropDeferred, cleanLog,
                   cleanResult, cmdResult>>

\* the check of the legacy validator on the same two results
checkBackupsLegacy(backups, info) ==
    IF Cardinality(backups) # 1
    THEN "Invalid number of backups " \o ToString(Cardinality(backups))
    ELSE IF Len(info) # 2
    THEN "Invalid number of backups " \o ToString(Len(info))
    ELSE IF (info[1].full /\ ~info[2].full) \/ (info[2].full /\ ~info[1].full)
    THEN ""
    ELSE "expecting full and incremental"

\* the counts checkBackups compares, on the collections listed and on the
\* entries of the first one: "" when they are the expected ones
checkBackups(backups, info) ==
    IF Cardinality(backups) # expectedBackupCollections
    THEN "expected exactly 1 backup collection, got " \o ToString(Cardinality(backups))
    ELSE LET fullCount == Cardinality({i \in 1..Len(info) : info[i].full}) IN
         IF Len(info) # expectedBackupCount
         THEN "expected exactly 2 backups (1 full, 1 incremental), got "
                  \o ToString(Len(info)) \o " backups"
         ELSE IF fullCount # expectedFullBackupCount
         THEN "expected exactly 1 full backup, got " \o ToString(fullCount)
         ELSE ""

\* checkBackups; r is "list error", "info error" or "listed"
CheckExec(r) ==
    /\ mainPc = "checkExec"
    /\ CASE r = "list error" ->
              ReleaseAndFinishStep("failed to list table backups")
         [] r = "info error" ->
              /\ Cardinality(ListTableBackups(db.backups)) = expectedBackupCollections
              /\ ReleaseAndFinishStep("failed to get backup info")
         [] OTHER ->
              LET backups == ListTableBackups(db.backups)
                  first == CHOOSE c \in backups : \A k \in backups : c <= k
                  info == IF backups = {} THEN <<>>
                          ELSE BackupInfo(db.backups, first)
              IN  ReleaseAndFinishStep(checkBackups(backups, info))
    /\ UNCHANGED <<genVars, tryVars, pureVars, runEnv, blobStorage, spawnIdx, stopping,
                   runPc, doneClosed, wPc, bPc, wg, db, stats,
                   issued, phaseLog, integrity, dropDeferred, cleanLog,
                   cleanResult, cmdResult>>

\* performRestore: RESTORE of the latest backup into the restored database
RestoreExec(ok) ==
    /\ mainPc = "restoreExec"
    /\ issued' = Append(issued, "restore")
    /\ IF ok
       THEN /\ db.restoredDb
            /\ db.backups # <<>>
            /\ db' = [db EXCEPT !.restoredRows = db.backups[Len(db.backups)].rows]
            /\ ReleaseAndFinishStep("")
       ELSE /\ ReleaseAndFinishStep("failed to restore backup")
            /\ UNCHANGED db
    /\ UNCHANGED <<genVars, tryVars, pureVars, runEnv, blobStorage, spawnIdx, stopping,
                   runPc, doneClosed, wPc, bPc, wg, stats,
                   phaseLog, integrity, dropDeferred, cleanLog,
                   cleanResult, cmdResult>>

\* a verify step that hands the error of verifyIntegrity to the loop
verifyStepStrict(err) == err

\* a verify step that swallows a fingerprint mismatch only
verifyStepMismatchOnly(err) == IF err = "integrity check failed" THEN "" ELSE err

\* the "verify integrity" step function: the error is logged, nil is returned
verifyStep(err) == ""

\* verifyIntegrity: acquireConn
VerifyAcquire(ok) ==
    /\ mainPc = "verifyAcquire"
    /\ IF ok
       THEN /\ inUse < maxConns
            /\ inUse' = inUse + 1
            /\ mainPc' = "verifyExec"
            /\ UNCHANGED <<integrity, phaseErrs, valResult, stepIdx>>
       ELSE /\ integrity' = "error"
            /\ FinishStep(verifyStep("failed to acquire database connection"))
            /\ UNCHANGED inUse
    /\ UNCHANGED <<genVars, tryVars, pureVars, runEnv, blobStorage, spawnIdx, stopping,
                   runPc, doneClosed, wPc, bPc, wg, db, stats,
                   issued, phaseLog, dropDeferred, cleanLog, cleanResult,
                   cmdResult>>

\* verifyIntegrity: the two fingerprints and their comparison.  The source
\* table only ever gains rows of fresh keys, so its content equals that of
\* the restored table iff the row counts are equal.
\* r is "source error", "restored error" or "compare"
VerifyExec(r) ==
    /\ mainPc = "verifyExec"
    /\ LET err == CASE r = "source error" -> "failed to get original table fingerprint"
                    [] r = "restored error" -> "failed to get restored table fingerprint"
                    [] OTHER -> IF db.srcRows # db.restoredRows
                                THEN "integrity check failed" ELSE ""
       IN  /\ integrity' = CASE r # "compare" -> "error"
                             [] err # "" -> "mismatch"
                             [] OTHER -> "ok"
           /\ ReleaseAndFinishStep(verifyStep(err))
    /\ UNCHANGED <<genVars, tryVars, pureVars, runEnv, blobStorage, spawnIdx, stopping,
                   runPc, doneClosed, wPc, bPc, wg, db, stats,
                   issued, phaseLog, dropDeferred, cleanLog, cleanResult,
                   cmdResult>>

(***************************************************************************)
(* The deferred calls of Validate, the end of RunE and Validator.Clean     *)
(***************************************************************************)
\* deferred extConn.Drop: the SHOW EXTERNAL CONNECTIONS query; its error is
\* dropped
DeferDropShow(ok) ==
    /\ mainPc = "deferDropShow"
    /\ mainPc' = IF ok /\ db.extConn THEN "deferDropExec" ELSE "valRelease"
    /\ UNCHANGED <<genVars, tryVars, pureVars, runEnv, blobStorage, stepIdx, spawnIdx,
                   stopping, inUse, runPc, doneClosed, wPc, bPc,
                   wg, db, stats, issued, phaseLog, phaseErrs, integrity,
                   dropDeferred, valResult, cleanLog, cleanResult,
                   cmdResult>>

\* deferred extConn.Drop: the DROP EXTERNAL CONNECTION statement
DeferDropExec(ok) ==
    /\ mainPc = "deferDropExec"
    /\ db' = [db EXCEPT !.extConn = IF ok THEN FALSE ELSE @]
    /\ mainPc' = "valRelease"
    /\ UNCHANGED <<genVars, tryVars, pureVars, runEnv, blobStorage, stepIdx, spawnIdx,
                   stopping, inUse, runPc, doneClosed, wPc, bPc,
                   wg, stats, issued, phaseLog, phaseErrs, integrity,
                   dropDeferred, valResult, cleanLog, cleanResult,
                   cmdResult>>

\* deferred conn.Release of Validate
ValRelease ==
    /\ mainPc = "valRelease"
    /\ inUse' = Release(inUse)
    /\ mainPc' = "valReturned"
    /\ UNCHANGED <<genVars, tryVars, pureVars, runEnv, blobStorage, stepIdx, spawnIdx,
                   stopping, runPc, doneClosed, wPc, bPc, wg, db,
                   stats, issued, phaseLog, phaseErrs, integrity,
                   dropDeferred, valResult, cleanLog, cleanResult,
                   cmdResult>>

\* errors.Wrapf(err, "failed during step: %s", step.name)
Wrapf(err, step) ==
    IF step = "" THEN err ELSE "failed during step: " \o step \o ": " \o err

\* RunE after Validate: the error is what RunE will return, a report is
\* printed; the deferred Clean runs before RunE returns
CmdAfterValidate ==
    /\ mainPc = "valReturned"
    /\ cmdResult' = [returned |-> FALSE,
                     err |-> Wrapf(valResult.err, valResult.step),
                     printed |-> IF valResult.err = "" THEN valResult.report
                                 ELSE NoReport]
    /\ mainPc' = "cleanAcquire"
    /\ UNCHANGED <<genVars, tryVars, pureVars, runEnv, blobStorage, stepIdx, spawnIdx,
                   stopping, inUse, runPc, doneClosed, wPc, bPc,
                   wg, db, stats, issued, phaseLog, phaseErrs, integrity,
                   dropDeferred, valResult, cleanLog, cleanResult>>

\* Clean and then RunE return
CleanReturns(res) ==
    /\ cleanResult' = res
    /\ cmdResult' = [cmdResult EXCEPT !.returned = TRUE]
    /\ mainPc' = "exit"

\* Clean: acquireConn on the parent context
CleanAcquire(ok) ==
    /\ mainPc = "cleanAcquire"
    /\ IF ok
       THEN /\ inUse < maxConns
            /\ inUse' = inUse + 1
            /\ mainPc' = "cleanDropSource"
            /\ UNCHANGED <<cleanResult, cmdResult>>
       ELSE /\ CleanReturns([cleanResult EXCEPT
                    !.returned = TRUE, !.acquireErr = TRUE,
                    !.errs = {"failed to acquire database connection"}])
            /\ UNCHANGED inUse
    /\ UNCHANGED <<genVars, tryVars, pureVars, runEnv, blobStorage, stepIdx, spawnIdx,
                   stopping, runPc, doneClosed, wPc, bPc, wg, db,
                   stats, issued, phaseLog, phaseErrs, integrity,
                   dropDeferred, valResult, cleanLog>>

\* Clean: sourceTable.Database.Drop
CleanDropSource(ok) ==
    /\ mainPc = "cleanDropSource"
    /\ cleanLog' = Append(cleanLog, [db |-> "source", ok |-> ok])
    /\ db' = [db EXCEPT !.srcDb = IF ok THEN FALSE ELSE @]
    /\ cleanResult' = [cleanResult EXCEPT
           !.e1 = IF ok THEN "" ELSE "failed to drop source database"]
    /\ mainPc' = "cleanDropRestored"
    /\ UNCHANGED <<genVars, tryVars, pureVars, runEnv, blobStorage, stepIdx, spawnIdx,
                   stopping, inUse, runPc, doneClosed, wPc, bPc,
                   wg, stats, issued, phaseLog, phaseErrs, integrity,
                   dropDeferred, valResult, cmdResult>>

\* a join that keeps the first error only
JoinFirst(e1, e2) == {e1} \ {""}

\* errors.Join: the non-nil errors; nil (the empty set) when there is none
Join(e1, e2) == {e1, e2} \ {""}

\* Clean: restoredTable.Database.Drop, errors.Join, the deferred
\* conn.Release; then RunE returns
CleanDropRestored(ok) ==
    /\ mainPc = "cleanDropRestored"
    /\ cleanLog' = Append(cleanLog, [db |-> "restored", ok |-> ok])
    /\ db' = [db EXCEPT !.restoredDb = IF ok THEN FALSE ELSE @]
    /\ LET e2 == IF ok THEN "" ELSE "failed to drop restored database" IN
       CleanReturns([cleanResult EXCEPT
           !.returned = TRUE, !.errs = Join(cleanResult.e1, e2)])
    /\ inUse' = Release(inUse)
    /\ UNCHANGED <<genVars, tryVars, pureVars, runEnv, blobStorage, stepIdx, spawnIdx,
                   stopping, runPc, doneClosed, wPc, bPc, wg,
                   stats, issued, phaseLog, phaseErrs, integrity,
                   dropDeferred, valResult>>

(***************************************************************************)
(* Workload.Run on its own                                                 *)
(***************************************************************************)
\* every Run has been handed its connection and an existing table; done may
\* be closed already and the stop signal may be raised already
InitWorkload ==
    /\ runEnv = [Guess |-> FALSE, Workers |-> MaxWorkers, WorkloadDuration |-> 1,
                 DatabaseURL |-> DatabaseURL]
    /\ mainPc = "idle"
    /\ blobStorage = EmptyParams
    /\ stepIdx = 0
    /\ spawnIdx = 0
    /\ stopping \in BOOLEAN
    /\ inUse = Cardinality(Runs)
    /\ runPc = [r \in Runs |-> "upsert"]
    /\ doneClosed \in [Runs -> BOOLEAN]
    /\ wPc = [w \in Workers |-> "idle"]
    /\ bPc = "idle"
    /\ wg = 0
    /\ db = [InitDb(FALSE, FALSE) EXCEPT !.srcDb = TRUE]
    /\ stats = <<>>
    /\ issued = <<>>
    /\ phaseLog = <<>>
    /\ phaseErrs = {}
    /\ integrity = "none"
    /\ dropDeferred = FALSE
    /\ valResult = ValNone
    /\ cleanLog = <<>>
    /\ cleanResult = CleanNone
    /\ cmdResult = NotReturned

(***************************************************************************)
(* New on enumerated arguments                                             *)
(***************************************************************************)
\* New is called with any environment and any storage, nil included
InitNew ==
    /\ runEnv \in Envs \cup {NilEnv}
    /\ mainPc = "new"
    /\ blobStorage \in {DiscoveredStore, NilStorage}
    /\ stepIdx = 0
    /\ spawnIdx = 0
    /\ stopping = FALSE
    /\ inUse = 0
    /\ runPc = [r \in Runs |-> "idle"]
    /\ doneClosed = [r \in Runs |-> FALSE]
    /\ wPc = [w \in Workers |-> "idle"]
    /\ bPc = "idle"
    /\ wg = 0
    /\ db \in InitDbs
    /\ stats = <<>>
    /\ issued = <<>>
    /\ phaseLog = <<>>
    /\ phaseErrs = {}
    /\ integrity = "none"
    /\ dropDeferred = FALSE
    /\ valResult = ValNone
    /\ cleanLog = <<>>
    /\ cleanResult = CleanNone
    /\ cmdResult = NotReturned

(***************************************************************************)
(* The step "workload with backup" on its own                              *)
(***************************************************************************)
\* the loop of Validate has just started its second step, on a run of a
\* valid environment whose first step succeeded
InitPhase ==
    /\ runEnv \in {e \in Envs : ~e.Guess /\ preflight(FALSE, FALSE, e) = ""}
    /\ mainPc = "burstSpawn"
    /\ blobStorage = DiscoveredStore
    /\ stepIdx = 2
    /\ spawnIdx = 0
    /\ stopping = FALSE
    /\ inUse = 1
    /\ runPc = [r \in Runs |-> "idle"]
    /\ doneClosed = [r \in Runs |-> FALSE]
    /\ wPc = [w \in Workers |-> "idle"]
    /\ bPc = "idle"
    /\ wg = 0
    /\ db = [InitDb(TRUE, FALSE) EXCEPT !.srcDb = TRUE, !.restoredDb = TRUE]
    /\ stats = StatsRows
    /\ issued = <<>>
    /\ phaseLog = SubSeq(Steps, 1, 2)
    /\ phaseErrs = {}
    /\ integrity = "none"
    /\ dropDeferred = TRUE
    /\ valResult = ValNone
    /\ cleanLog = <<>>
    /\ cleanResult = CleanNone
    /\ cmdResult = NotReturned

(***************************************************************************)
(* checkBackups on enumerated query results                                *)
(***************************************************************************)
\* most collections the listing returns, most entries of a collection
MaxCollections == 3
MaxInfo == 4

\* checkBackups has not compared yet
Pending == "pending"

\* db.TableBackup, as far as checkBackups reads it
TableBackups(n) == [1..n -> [full : BOOLEAN]]

ChkIdle ==
    /\ chkBackups = {}
    /\ chkInfo = <<>>
    /\ chkErr = Pending

InitCheck ==
    /\ chkBackups \in {1..n : n \in 0..MaxCollections}
    /\ chkInfo \in UNION {TableBackups(n) : n \in 0..MaxInfo}
    /\ chkErr = Pending

\* checkBackups once both queries have returned without error
CheckBackups ==
    /\ chkErr = Pending
    /\ chkErr' = checkBackups(chkBackups, chkInfo)
    /\ UNCHANGED <<genVars, tryVars, runVars, chkBackups, chkInfo, dropVars,
                   storeVars, fmtVars, keyVars, poolVars>>

(***************************************************************************)
(* ExternalConn.Drop called repeatedly on one connection                   *)
(***************************************************************************)
\* calls of Drop followed
MaxDrops == 2

\* the reserved name, the name the integration test uses, and another
ConnNames == {"_blobcheck_backup", "test-conn", "other"}

\* a Drop whose query never reports a missing connection
notFoundNever(conns, name) == FALSE

\* the SHOW EXTERNAL CONNECTIONS query filtered on the name returns no row:
\* Scan returns pgx.ErrNoRows
notFound(conns, name) == name \notin conns

\* Drop on connection name in a cluster holding conns; showOk and execOk are
\* whether the database executes the query and the DROP statement without
\* a failure of its own (a DROP of a connection that does not exist fails)
Drop(conns, name, showOk, execOk) ==
    IF showOk /\ notFound(conns, name)
    THEN [before |-> conns, after |-> conns, issued |-> FALSE, err |-> ""]
    ELSE IF ~showOk
    THEN [before |-> conns, after |-> conns, issued |-> FALSE,
          err |-> "query failed"]
    ELSE IF execOk /\ name \in conns
    THEN [before |-> conns, after |-> conns \ {name}, issued |-> TRUE,
          err |-> ""]
    ELSE [before |-> conns, after |-> conns, issued |-> TRUE,
          err |-> "drop failed"]

DropIdle ==
    /\ dropName = ""
    /\ dropConns = {}
    /\ dropLog = <<>>

InitDrop ==
    /\ dropName \in ConnNames
    /\ dropConns \in SUBSET ConnNames
    /\ dropLog = <<>>

\* one call of c.Drop
DropCall(showOk, execOk) ==
    /\ Len(dropLog) < MaxDrops
    /\ LET r == Drop(dropConns, dropName, showOk, execOk) IN
         /\ dropConns' = r.after
         /\ dropLog' = Append(dropLog, r)
    /\ UNCHANGED <<genVars, tryVars, runVars, chkVars, dropName, storeVars, fmtVars,
                   keyVars, poolVars>>

(***************************************************************************)
(* s3Store: Params, addParam and URL on two stores side by side            *)
(***************************************************************************)
\* operations followed on the stores
MaxOps == 3

\* the bytes of the strings explored: Go strings are byte sequences
Bytes(s) ==
    CASE s = "AWS_ACCESS_KEY_ID" -> <<65, 87, 83, 95, 65, 67, 67, 69, 83, 83, 95, 75, 69, 89, 95, 73, 68>>
      [] s = "AWS_SECRET_ACCESS_KEY" -> <<65, 87, 83, 95, 83, 69, 67, 82, 69, 84, 95, 65, 67, 67, 69, 83, 83, 95, 75, 69, 89>>
      [] s = "AWS_SESSION_TOKEN" -> <<65, 87, 83, 95, 83, 69, 83, 83, 73, 79, 78, 95, 84, 79, 75, 69, 78>>
      [] s = "AWS_ENDPOINT" -> <<65, 87, 83, 95, 69, 78, 68, 80, 79, 73, 78, 84>>
      [] s = "AWS_REGION" -> <<65, 87, 83, 95, 82, 69, 71, 73, 79, 78>>
      [] s = "AWS_USE_PATH_STYLE" -> <<65, 87, 83, 95, 85, 83, 69, 95, 80, 65, 84, 72, 95, 83, 84, 89, 76, 69>>
      [] s = "AWS_SKIP_CHECKSUM" -> <<65, 87, 83, 95, 83, 75, 73, 80, 95, 67, 72, 69, 67, 75, 83, 85, 77>>
      [] s = "AWS_SKIP_TLS_VERIFY" -> <<65, 87, 83, 95, 83, 75, 73, 80, 95, 84, 76, 83, 95, 86, 69, 82, 73, 70, 89>>
      [] s = "AWS_BOGUS" -> <<65, 87, 83, 95, 66, 79, 71, 85, 83>>
      [] s = "aws_region" -> <<97, 119, 115, 95, 114, 101, 103, 105, 111, 110>>
      [] s = "cockroach" -> <<99, 111, 99, 107, 114, 111, 97, 99, 104>>
      [] s = "aws-global" -> <<97, 119, 115, 45, 103, 108, 111, 98, 97, 108>>
      [] s = "true" -> <<116, 114, 117, 101>>
      [] s = "a/b" -> <<97, 47, 98>>
      [] s = "c d" -> <<99, 32, 100>>
      [] s = "t=1" -> <<116, 61, 49>>
      [] s = "t&2" -> <<116, 38, 50>>
      [] s = "******" -> <<42, 42, 42, 42, 42, 42>>

\* the character of an unreserved byte
Chr(b) ==
    CASE b = 45 -> "-"
      [] b = 49 -> "1"
      [] b = 50 -> "2"
      [] b = 65 -> "A"
      [] b = 66 -> "B"
      [] b = 67 -> "C"
      [] b = 68 -> "D"
      [] b = 69 -> "E"
      [] b = 70 -> "F"
      [] b = 71 -> "G"
      [] b = 72 -> "H"
      [] b = 73 -> "I"
      [] b = 75 -> "K"
      [] b = 76 -> "L"
      [] b = 77 -> "M"
      [] b = 78 -> "N"
      [] b = 79 -> "O"
      [] b = 80 -> "P"
      [] b = 82 -> "R"
      [] b = 83 -> "S"
      [] b = 84 -> "T"
      [] b = 85 -> "U"
      [] b = 86 -> "V"
      [] b = 87 -> "W"
      [] b = 89 -> "Y"
      [] b = 95 -> "_"
      [] b = 97 -> "a"
      [] b = 98 -> "b"
      [] b = 99 -> "c"
      [] b = 100 -> "d"
      [] b = 101 -> "e"
      [] b = 103 -> "g"
      [] b = 104 -> "h"
      [] b = 105 -> "i"
      [] b = 107 -> "k"
      [] b = 108 -> "l"
      [] b = 110 -> "n"
      [] b = 111 -> "o"
      [] b = 114 -> "r"
      [] b = 115 -> "s"
      [] b = 116 -> "t"
      [] b = 117 -> "u"
      [] b = 119 -> "w"

\* the hexadecimal digits url.QueryEscape writes
HexDigit(n) ==
    <<"0", "1", "2", "3", "4", "5", "6", "7", "8", "9",
      "A", "B", "C", "D", "E", "F">>[n + 1]

\* url.QueryEscape leaves letters, digits, '-', '_', '.' and '~' alone
shouldEscape(b) ==
    ~ \/ b \in 48..57
      \/ b \in 65..90
      \/ b \in 97..122
      \/ b \in {45, 95, 46, 126}

\* url.QueryEscape of one byte: a space becomes '+', any other escaped byte
\* %XX
escapeByte(b) ==
    IF ~shouldEscape(b) THEN Chr(b)
    ELSE IF b = 32 THEN "+"
    ELSE "%" \o HexDigit(b \div 16) \o HexDigit(b % 16)

RECURSIVE escapeBytes(_)
escapeBytes(bs) ==
    IF bs = <<>> THEN "" ELSE escapeByte(Head(bs)) \o escapeBytes(Tail(bs))

\* the strings that occur as keys or values of the stores explored
StoreStrings ==
    {ValidParams[i] : i \in 1..Len(ValidParams)}
    \cup {"AWS_BOGUS", "aws_region", "cockroach", DefaultRegion, "true",
          "a/b", "c d", "t=1", "t&2", Obfuscated}

\* url.QueryEscape of each of them, computed once
QueryEscaped == [s \in StoreStrings |-> escapeBytes(Bytes(s))]

QueryEscape(s) == QueryEscaped[s]

\* a < b on Go strings: byte-wise lexicographic order
RECURSIVE bytesLess(_, _)
bytesLess(a, b) ==
    IF b = <<>> THEN FALSE
    ELSE IF a = <<>> THEN TRUE
    ELSE IF Head(a) # Head(b) THEN Head(a) < Head(b)
    ELSE bytesLess(Tail(a), Tail(b))

StringLess(a, b) == bytesLess(Bytes(a), Bytes(b))

\* the keys in ascending order, by insertion into a sorted sequence
RECURSIVE insertKey(_, _)
insertKey(sorted, k) ==
    IF sorted = <<>> THEN <<k>>
    ELSE IF StringLess(k, Head(sorted)) THEN <<k>> \o sorted
    ELSE <<Head(sorted)>> \o insertKey(Tail(sorted), k)

RECURSIVE sortKeys(_)
sortKeys(ks) ==
    IF ks = <<>> THEN <<>>
    ELSE insertKey(sortKeys(Tail(ks)), Head(ks))

\* the orders in which a range over a Go map with these keys may visit them
RangeOrders(keys) ==
    {o \in [1..Cardinality(keys) -> keys] :
        \A i, j \in 1..Cardinality(keys) : o[i] = o[j] => i = j}

\* the entries of the map under the keys ks, in that order
RECURSIVE entries(_, _)
entries(params, ks) ==
    IF ks = <<>> THEN <<>>
    ELSE <<(<<Head(ks), params[Head(ks)]>>)>> \o entries(params, Tail(ks))

\* an iteration that yields the entries in the order the map hands them out
IterRange(params, order) == entries(params, order)

\* Params.Iter: the entries in ascending key order, whatever order the map
\* hands its keys out in
Iter(params, order) == entries(params, sortKeys(order))

\* s3Store.escapeValues, as the list of escaped key=value pairs and as the
\* string joining them with '&'
RECURSIVE escapeEntries(_)
escapeEntries(es) ==
    IF es = <<>> THEN <<>>
    ELSE <<(<<QueryEscape(Head(es)[1]), QueryEscape(Head(es)[2])>>)>>
         \o escapeEntries(Tail(es))

escapePairs(params, order) == escapeEntries(Iter(params, order))

RECURSIVE joinPairs(_)
joinPairs(ps) ==
    IF ps = <<>> THEN ""
    ELSE Head(ps)[1] \o "=" \o Head(ps)[2]
         \o (IF Len(ps) > 1 THEN "&" ELSE "") \o joinPairs(Tail(ps))

escapeValues(params, order) == joinPairs(escapePairs(params, order))

\* s3Store.URL
URL(params, dest, order) ==
    [pairs |-> escapePairs(params, order),
     str |-> "s3://" \o dest \o "?" \o escapeValues(params, order)]

\* a URL() call remembered with the params the store held then
UrlOf(params, url) == [pairs |-> url.pairs, str |-> url.str, of |-> params]
NoURL == [pairs |-> <<>>, str |-> "", of |-> EmptyParams]

\* a Clone that hands back the map it was given
CloneAlias(heap, a) == [heap |-> heap, addr |-> a]

\* maps.Clone: a new map with the same entries; heap is the sequence of the
\* maps allocated so far and a map's address its index
Clone(heap, a) == [heap |-> Append(heap, heap[a]), addr |-> Len(heap) + 1]

\* s3Store.Params on the store whose params map is at address 1: the clone,
\* then the loop that overwrites the sensitive values in it
ParamsCall(heap) ==
    LET c == Clone(heap, 1) IN
    [heap |-> [c.heap EXCEPT ![c.addr] = Params(@)], addr |-> c.addr]

\* the two stores
Sides == 1..2

SecretValues == {"a/b", "c d"}
TokenValues == {"t=1", "t&2"}

\* the keys addParam is called with
AddKeys == {UsePathStyleParam, RegionParam, "AWS_BOGUS", "aws_region"}

\* the keys a store explored can hold, and every order a range over a map
\* holding some of them may take
StoreKeys ==
    {AccountParam, SecretParam, TokenParam, RegionParam, UsePathStyleParam}
StoreOrders == UNION {RangeOrders(ks) : ks \in SUBSET StoreKeys}

\* the environment of a run: the two required variables, the token or not
StoreEnv(secret, token) ==
    [k \in {AccountParam, SecretParam} \cup (IF token = "" THEN {} ELSE {TokenParam}) |->
        IF k = AccountParam THEN "cockroach"
        ELSE IF k = SecretParam THEN secret ELSE token]

\* two runs whose environments differ at most in the values of the secret
\* and of the session token
StorePairs ==
    {<<StoreEnv(s1, t1), StoreEnv(s2, t2)>> :
        s1 \in SecretValues, s2 \in SecretValues,
        t1 \in TokenValues \cup {""}, t2 \in TokenValues \cup {""}}

StoreIdle ==
    /\ stEnv = <<>>
    /\ stHeap = <<>>
    /\ stShown = <<>>
    /\ stURL = <<>>
    /\ stErr = "none"
    /\ stOps = 0

InitStore ==
    /\ stEnv \in {p \in StorePairs : (TokenParam \in DOMAIN p[1]) = (TokenParam \in DOMAIN p[2])}
    /\ stHeap = [r \in Sides |-> <<initialParams(stEnv[r], "")>>]
    /\ stShown = [r \in Sides |-> 0]
    /\ stURL = [r \in Sides |-> NoURL]
    /\ stErr = "none"
    /\ stOps = 0

\* both runs call Params() on their store
StoreParams ==
    /\ stOps < MaxOps
    /\ stOps' = stOps + 1
    /\ stHeap' = [r \in Sides |-> ParamsCall(stHeap[r]).heap]
    /\ stShown' = [r \in Sides |-> ParamsCall(stHeap[r]).addr]
    /\ UNCHANGED <<genVars, tryVars, runVars, chkVars, dropVars, fmtVars, keyVars, poolVars,
                   stEnv, stURL, stErr>>

\* both runs call addParam(key, "true") on their store
StoreAddParam(key) ==
    /\ stOps < MaxOps
    /\ stOps' = stOps + 1
    /\ stHeap' = [r \in Sides |->
                    [stHeap[r] EXCEPT ![1] = addParam(@, key, "true").params]]
    /\ stErr' = IF addParam(stHeap[1][1], key, "true").err
                THEN "invalid param" ELSE ""
    /\ UNCHANGED <<genVars, tryVars, runVars, chkVars, dropVars, fmtVars, keyVars, poolVars,
                   stEnv, stShown, stURL>>

\* run r calls URL() on its store, whose map hands out its keys in order
StoreURL(r, order) ==
    /\ stOps < MaxOps
    /\ {order[i] : i \in 1..Len(order)} = DOMAIN stHeap[r][1]
    /\ stOps' = stOps + 1
    /\ stURL' = [stURL EXCEPT
                    ![r] = UrlOf(stHeap[r][1], URL(stHeap[r][1], Dest, order))]
    /\ UNCHANGED <<genVars, tryVars, runVars, chkVars, dropVars, fmtVars, keyVars, poolVars,
                   stEnv, stHeap, stShown, stErr>>

(***************************************************************************)
(* format.Report                                                           *)
(***************************************************************************)
MaxStats == 2

\* a nil []*db.Stats, and the slice holding rows
NilStats == [nil |-> TRUE, rows |-> <<>>]
StatsOf(rows) == [nil |-> FALSE, rows |-> rows]

\* a nil blob.Params, and the map m
NilParams == [nil |-> TRUE, m |-> EmptyParams]
ParamsOf(m) == [nil |-> FALSE, m |-> m]

\* the db.Stats values explored: the fields format.Report reads
StatValues ==
    [Node : 1..2, ReadSpeed : {"100MB/s"}, WriteSpeed : {"50MB/s"},
     ErrStr : {"", "timeout"}]

\* sequences over S of length n, and of length up to n
RECURSIVE SeqsOfLen(_, _)
SeqsOfLen(S, n) ==
    IF n = 0 THEN {<<>>}
    ELSE {Append(s, x) : s \in SeqsOfLen(S, n - 1), x \in S}
SeqsUpTo(S, n) == UNION {SeqsOfLen(S, k) : k \in 0..n}

\* what Storage.Params() hands to a report: the obfuscated parameters of a
\* store built from an environment with or without token and endpoint
ReportParams ==
    {Params(initialParams(StoreEnv("a/b", token), endpoint)) :
        token \in {"", "t=1"}, endpoint \in {"", Endpoint}}

\* a table handed to Render: title, header and the rows appended, in order
Table(title, header, rows) == [title |-> title, header |-> header, rows |-> rows]

\* a renderer that reports every row as OK
messageOK(stat) == "OK"

\* `message := "OK"; if stat.ErrStr != "" { message = stat.ErrStr }`
message(stat) == IF stat.ErrStr # "" THEN stat.ErrStr ELSE "OK"

\* the loop over report.Stats: one row appended per element
RECURSIVE statRows(_)
statRows(rows) ==
    IF rows = <<>> THEN <<>>
    ELSE <<(<<Head(rows).Node, Head(rows).ReadSpeed, Head(rows).WriteSpeed,
              message(Head(rows))>>)>> \o statRows(Tail(rows))

\* format.Report: what is rendered to w; order is the order in which the
\* map behind SuggestedParams hands out its keys
FormatReport(report, order) ==
    (IF ~report.SuggestedParams.nil
     THEN <<Table("Suggested Parameters", <<"Parameter", "Value">>,
                  Iter(report.SuggestedParams.m, order))>>
     ELSE <<>>)
    \o
    (IF ~report.Stats.nil
     THEN <<Table("Statistics", <<"Node", "Read Speed", "Write Speed", "Status">>,
                  statRows(report.Stats.rows))>>
     ELSE <<>>)

\* every order a range over the map of a report explored may take
FmtOrders == UNION {RangeOrders(DOMAIN p) : p \in ReportParams}

FmtIdle ==
    /\ fmtReport = <<>>
    /\ fmtPc = "idle"
    /\ fmtOut = <<>>

\* the reports the commands build: parameters of a store, and stats that are
\* nil (guess, or a cluster before v25.1.0) or the rows CHECK returned
InitFormat ==
    /\ fmtReport \in
          [SuggestedParams : {ParamsOf(p) : p \in ReportParams},
           Stats : {NilStats} \cup {StatsOf(r) : r \in SeqsUpTo(StatValues, MaxStats)}]
    /\ fmtPc = "start"
    /\ fmtOut = <<>>

\* one call of format.Report
FormatCall(order) ==
    /\ fmtPc = "start"
    /\ {order[i] : i \in 1..Len(order)} = DOMAIN fmtReport.SuggestedParams.m
    /\ fmtOut' = FormatReport(fmtReport, order)
    /\ fmtPc' = "done"
    /\ UNCHANGED <<genVars, tryVars, runVars, chkVars, dropVars, storeVars, keyVars,
                   poolVars, fmtReport>>

(***************************************************************************)
(* The keys of Workload.Run, for the runs of one validation                *)
(***************************************************************************)
\* runs of the workload explored (the initial burst and the workers), and
\* upserts explored per run
MaxKeyRuns == 2
MaxRunWrites == 2

KeyRuns == 1..MaxKeyRuns

\* stand-ins for the strings uuid.New() returns: as many as runs, and one more
UUIDs == {"uuid" \o ToString(n) : n \in 1..(MaxKeyRuns + 1)}

\* the prefixes given out so far
IssuedPrefixes == {kPrefix[r] : r \in KeyRuns} \ {""}

\* a generator that may hand out a value it has handed out before
uuidNewAny(given) == UUIDs

\* uuid.New(): a random UUID, taken to differ from all those given out before
uuidNew(given) == UUIDs \ given

\* fmt.Sprintf("%s-%d", w.Prefix, idx)
Key(prefix, idx) == prefix \o "-" \o ToString(idx)

\* a loop that does not advance its index
idxSame(idx) == idx

\* `idx++` in the tick branch of the select
idxNext(idx) == idx + 1

KeysIdle ==
    /\ kPrefix = <<>>
    /\ kIdx = <<>>
    /\ kPc = <<>>
    /\ kKeys = <<>>

InitKeys ==
    /\ kPrefix = [r \in KeyRuns |-> ""]
    /\ kIdx = [r \in KeyRuns |-> 0]
    /\ kPc = [r \in KeyRuns |-> "idle"]
    /\ kKeys = [r \in KeyRuns |-> <<>>]

\* runWorkload builds its Workload with a new prefix and starts Run, whose
\* `var idx int` is 0
KeysStart(r, u) ==
    /\ kPc[r] = "idle"
    /\ u \in uuidNew(IssuedPrefixes)
    /\ kPrefix' = [kPrefix EXCEPT ![r] = u]
    /\ kIdx' = [kIdx EXCEPT ![r] = 0]
    /\ kPc' = [kPc EXCEPT ![r] = "upsert"]
    /\ UNCHANGED <<genVars, tryVars, runVars, chkVars, dropVars, storeVars, fmtVars,
                   poolVars, kKeys>>

\* Workload.Run: the Upsert of key Prefix-idx; an error ends the loop
KeysUpsert(r, ok) ==
    /\ kPc[r] = "upsert"
    /\ Len(kKeys[r]) < MaxRunWrites
    /\ IF ok
       THEN /\ kKeys' = [kKeys EXCEPT ![r] = Append(@, Key(kPrefix[r], kIdx[r]))]
            /\ kPc' = [kPc EXCEPT ![r] = "select"]
       ELSE /\ kPc' = [kPc EXCEPT ![r] = "failed"]
            /\ UNCHANGED kKeys
    /\ UNCHANGED <<genVars, tryVars, runVars, chkVars, dropVars, storeVars, fmtVars,
                   poolVars, kPrefix, kIdx>>

\* Workload.Run: the select after a write; done or the stop signal end the
\* loop, the think-time tick advances idx
KeysSelect(r, branch) ==
    /\ kPc[r] = "select"
    /\ IF branch = "tick"
       THEN /\ kIdx' = [kIdx EXCEPT ![r] = idxNext(@)]
            /\ kPc' = [kPc EXCEPT ![r] = "upsert"]
       ELSE /\ kPc' = [kPc EXCEPT ![r] = "done"]
            /\ UNCHANGED kIdx
    /\ UNCHANGED <<genVars, tryVars, runVars, chkVars, dropVars, storeVars, fmtVars,
                   poolVars, kPrefix, kKeys>>

(***************************************************************************)
(* The concurrent phase and the pool, for any number of workers, on a run  *)
(* in which no statement fails and no stop arrives (tasks are counted by   *)
(* position: workers and runs are interchangeable)                         *)
(***************************************************************************)
\* largest --workers value explored here: above the size of the pool
MaxPoolWorkers == 11

\* positions of a Workload.Run goroutine: waiting in pool.Acquire, or in its
\* loop of upserts and selects with its connection; with whether its done
\* channel is closed
RunClasses == {"acquire", "loop"} \X BOOLEAN

\* connections checked out: the one Validate holds for the whole phase, one
\* per Run in its loop, one for the full backup while it executes
PoolInUse ==
    1 + pRuns[<<"loop", FALSE>>] + pRuns[<<"loop", TRUE>>]
      + (IF pBackup = "exec" THEN 1 ELSE 0)

\* pool.Acquire returns a connection only while fewer than MaxConns are out
poolAvailable == PoolInUse < maxConns

\* a Run that never sees its done channel closed
doneReadyNever(closed) == FALSE

\* `case <-done:` of the select in Workload.Run is ready once done is closed
doneReady(closed) == closed

\* one task more, or less, at class cl
RunsPlus(runs, cl) == [runs EXCEPT ![cl] = @ + 1]
RunsMinus(runs, cl) == [runs EXCEPT ![cl] = @ - 1]

\* ctx.Go of a Workload.Run: the goroutine starts at pool.Acquire
GoRun(runs) == RunsPlus(runs, <<"acquire", FALSE>>)

\* close(done) by the runWorkload whose Run is at position pc
CloseDone(runs, pc) == RunsPlus(RunsMinus(runs, <<pc, FALSE>>), <<pc, TRUE>>)

PoolIdle ==
    /\ pN = 0
    /\ pMain = "idle"
    /\ pSpawned = 0
    /\ pWg = 0
    /\ pWork = <<>>
    /\ pRuns = <<>>
    /\ pBackup = "idle"

\* runWorkloadWithBackup is entered with any accepted --workers value
InitPool ==
    /\ pN \in 0..MaxPoolWorkers
    /\ pMain = "burstSpawn"
    /\ pSpawned = 0
    /\ pWg = 0
    /\ pWork = [start |-> 0, select |-> 0]
    /\ pRuns = [cl \in RunClasses |-> 0]
    /\ pBackup = "idle"

\* runWorkload of the initial burst: ctx.Go of its Workload.Run
PoolBurstSpawn ==
    /\ pMain = "burstSpawn"
    /\ pRuns' = GoRun(pRuns)
    /\ pMain' = "burstSelect"
    /\ UNCHANGED <<genVars, tryVars, runVars, chkVars, dropVars, storeVars, fmtVars,
                   keyVars, pN, pSpawned, pWg, pWork, pBackup>>

\* runWorkload of the initial burst: the duration tick closes done
PoolBurstSelect(pc) ==
    /\ pMain = "burstSelect"
    /\ pRuns[<<pc, FALSE>>] > 0
    /\ pRuns' = CloseDone(pRuns, pc)
    /\ pMain' = "spawn"
    /\ UNCHANGED <<genVars, tryVars, runVars, chkVars, dropVars, storeVars, fmtVars,
                   keyVars, pN, pSpawned, pWg, pWork, pBackup>>

\* one iteration of the loop over workers: g.Add(1), ctx.Go of the worker
PoolSpawnWorker ==
    /\ pMain = "spawn"
    /\ pSpawned < pN
    /\ pSpawned' = pSpawned + 1
    /\ pWg' = pWg + 1
    /\ pWork' = [pWork EXCEPT !.start = @ + 1]
    /\ UNCHANGED <<genVars, tryVars, runVars, chkVars, dropVars, storeVars, fmtVars,
                   keyVars, pN, pMain, pRuns, pBackup>>

\* after the loop: g.Add(1), ctx.Go of the full-backup task; then g.Wait
PoolSpawnBackup ==
    /\ pMain = "spawn"
    /\ pSpawned = pN
    /\ pWg' = pWg + 1
    /\ pBackup' = "acquire"
    /\ pMain' = "wait"
    /\ UNCHANGED <<genVars, tryVars, runVars, chkVars, dropVars, storeVars, fmtVars,
                   keyVars, pN, pSpawned, pWork, pRuns>>

\* g.Wait returns
PoolWait ==
    /\ pMain = "wait"
    /\ pWg = 0
    /\ pMain' = "returned"
    /\ UNCHANGED <<genVars, tryVars, runVars, chkVars, dropVars, storeVars, fmtVars,
                   keyVars, pN, pSpawned, pWg, pWork, pRuns, pBackup>>

\* a worker task: runWorkload spawns its Workload.Run
PoolWorkerStart ==
    /\ pWork.start > 0
    /\ pWork' = [start |-> pWork.start - 1, select |-> pWork.select + 1]
    /\ pRuns' = GoRun(pRuns)
    /\ UNCHANGED <<genVars, tryVars, runVars, chkVars, dropVars, storeVars, fmtVars,
                   keyVars, pN, pMain, pSpawned, pWg, pBackup>>

\* a worker task: the duration tick of runWorkload closes done of its Run,
\* which is at pc; then the deferred g.Done
PoolWorkerSelect(pc) ==
    /\ pWork.select > 0
    /\ pMain # "burstSelect"
    /\ pRuns[<<pc, FALSE>>] > 0
    /\ pRuns' = CloseDone(pRuns, pc)
    /\ pWork' = [pWork EXCEPT !.select = @ - 1]
    /\ pWg' = pWg - 1
    /\ UNCHANGED <<genVars, tryVars, runVars, chkVars, dropVars, storeVars, fmtVars,
                   keyVars, pN, pMain, pSpawned, pBackup>>

\* a Workload.Run goroutine: pool.Acquire returns a connection
PoolRunAcquire(closed) ==
    /\ pRuns[<<"acquire", closed>>] > 0
    /\ poolAvailable
    /\ pRuns' = RunsPlus(RunsMinus(pRuns, <<"acquire", closed>>), <<"loop", closed>>)
    /\ UNCHANGED <<genVars, tryVars, runVars, chkVars, dropVars, storeVars, fmtVars,
                   keyVars, pN, pMain, pSpawned, pWg, pWork, pBackup>>

\* a Workload.Run goroutine leaves its loop at a select that finds done
\* closed, and releases its connection
PoolRunReturn(closed) ==
    /\ pRuns[<<"loop", closed>>] > 0
    /\ doneReady(closed)
    /\ pRuns' = RunsMinus(pRuns, <<"loop", closed>>)
    /\ UNCHANGED <<genVars, tryVars, runVars, chkVars, dropVars, storeVars, fmtVars,
                   keyVars, pN, pMain, pSpawned, pWg, pWork, pBackup>>

\* the full-backup task: acquireConn
PoolBackupAcquire ==
    /\ pBackup = "acquire"
    /\ poolAvailable
    /\ pBackup' = "exec"
    /\ UNCHANGED <<genVars, tryVars, runVars, chkVars, dropVars, storeVars, fmtVars,
                   keyVars, pN, pMain, pSpawned, pWg, pWork, pRuns>>

\* the full-backup task: the BACKUP statement, conn.Release, g.Done
PoolBackupExec ==
    /\ pBackup = "exec"
    /\ pBackup' = "done"
    /\ pWg' = pWg - 1
    /\ UNCHANGED <<genVars, tryVars, runVars, chkVars, dropVars, storeVars, fmtVars,
                   keyVars, pN, pMain, pSpawned, pWork, pRuns>>

PureIdle == ChkIdle /\ DropIdle /\ StoreIdle /\ FmtIdle /\ KeysIdle /\ PoolIdle

(***************************************************************************)
(* Specifications                                                          *)
(***************************************************************************)
\* the generator of candidate configurations, on every base explored
NextGen ==
    \/ \E more \in BOOLEAN : GenYield(more)
    \/ GenExhausted

InitSpecGen == InitGen /\ TryIdle /\ RunIdle /\ PureIdle

SpecGen == InitSpecGen /\ [][NextGen]_vars

\* the discovery of a working configuration, on every environment explored
NextTry ==
    \/ S3FromEnv
    \/ TryExhausted
    \/ \E ok \in BOOLEAN : TryLoadConfig(ok)
    \/ \E ok \in BOOLEAN : TryList(ok)
    \/ \E ok \in BOOLEAN : TryPut(ok)
    \/ \E r \in {"get error", "read error", content, Garbage} : TryGet(r)
    \/ \E ok \in BOOLEAN : TryDelete(ok)

InitSpecTry == InitTry /\ GenIdle /\ RunIdle /\ PureIdle

SpecTry == InitSpecTry /\ [][NextTry]_vars

\* checkBackups on every pair of query results explored
NextCheck == CheckBackups

InitSpecCheck ==
    InitCheck /\ GenIdle /\ TryIdle /\ RunIdle /\ DropIdle /\ StoreIdle /\ FmtIdle /\ KeysIdle
    /\ PoolIdle

SpecCheck == InitSpecCheck /\ [][NextCheck]_vars

\* Drop called again and again on one connection
NextDrop == \E showOk \in BOOLEAN, execOk \in BOOLEAN : DropCall(showOk, execOk)

InitSpecDrop ==
    InitDrop /\ GenIdle /\ TryIdle /\ RunIdle /\ ChkIdle /\ StoreIdle /\ FmtIdle /\ KeysIdle
    /\ PoolIdle

SpecDrop == InitSpecDrop /\ [][NextDrop]_vars

\* the stores of two runs under the same sequence of operations
NextStore ==
    \/ StoreParams
    \/ \E key \in AddKeys : StoreAddParam(key)
    \/ \E r \in Sides, order \in StoreOrders : StoreURL(r, order)

InitSpecStore ==
    InitStore /\ GenIdle /\ TryIdle /\ RunIdle /\ ChkIdle /\ DropIdle /\ FmtIdle
    /\ KeysIdle /\ PoolIdle

SpecStore == InitSpecStore /\ [][NextStore]_vars

\* format.Report on every report explored
NextFormat == \E order \in FmtOrders : FormatCall(order)

InitSpecFormat ==
    InitFormat /\ GenIdle /\ TryIdle /\ RunIdle /\ ChkIdle /\ DropIdle /\ StoreIdle
    /\ KeysIdle /\ PoolIdle

SpecFormat == InitSpecFormat /\ [][NextFormat]_vars

\* the runs of the workload of one validation, writing side by side
NextKeys ==
    \/ \E r \in KeyRuns, u \in UUIDs : KeysStart(r, u)
    \/ \E r \in KeyRuns, ok \in BOOLEAN : KeysUpsert(r, ok)
    \/ \E r \in KeyRuns, branch \in {"done", "stop", "tick"} : KeysSelect(r, branch)

InitSpecKeys ==
    InitKeys /\ GenIdle /\ TryIdle /\ RunIdle /\ ChkIdle /\ DropIdle /\ StoreIdle
    /\ FmtIdle /\ PoolIdle

SpecKeys == InitSpecKeys /\ [][NextKeys]_vars

\* the concurrent phase for every accepted number of workers
NextPool ==
    \/ PoolBurstSpawn
    \/ \E pc \in {"acquire", "loop"} : PoolBurstSelect(pc)
    \/ PoolSpawnWorker
    \/ PoolSpawnBackup
    \/ PoolWait
    \/ PoolWorkerStart
    \/ \E pc \in {"acquire", "loop"} : PoolWorkerSelect(pc)
    \/ \E closed \in BOOLEAN : PoolRunAcquire(closed)
    \/ \E closed \in BOOLEAN : PoolRunReturn(closed)
    \/ PoolBackupAcquire
    \/ PoolBackupExec

InitSpecPool ==
    InitPool /\ GenIdle /\ TryIdle /\ RunIdle /\ ChkIdle /\ DropIdle /\ StoreIdle
    /\ FmtIdle /\ KeysIdle

SpecPool == InitSpecPool /\ [][NextPool]_vars

\* every goroutine that can take a step is eventually scheduled; a select
\* with a ready branch eventually takes one; pool.Acquire returns once a
\* connection is free; a statement sent to the cluster eventually returns
FairPool == WF_vars(NextPool)

LiveSpecPool == SpecPool /\ FairPool

\* Workload.Run called with every state of its done channel and of the stop
\* signal, one call per connection
NextWorkload ==
    \/ \E r \in Runs, ok \in BOOLEAN : RunUpsert(r, ok)
    \/ \E r \in Runs, branch \in {"done", "stop", "tick"} : RunSelect(r, branch)

InitSpecWorkload == InitWorkload /\ GenIdle /\ TryIdle /\ PureIdle

SpecWorkload == InitSpecWorkload /\ [][NextWorkload]_vars

\* New, from its call to its return
NextNew ==
    \/ NewPreflight
    \/ \E ok \in BOOLEAN : NewPool(ok)
    \/ \E ok \in BOOLEAN : NewAcquire(ok)
    \/ \E ok \in BOOLEAN : NewCreateSourceDb(ok)
    \/ \E ok \in BOOLEAN : NewCreateSourceTable(ok)
    \/ \E ok \in BOOLEAN : NewPendingJobs(ok)
    \/ \E ok \in BOOLEAN : NewCreateRestoredDb(ok)

InitSpecNew == InitNew /\ GenIdle /\ TryIdle /\ PureIdle

SpecNew == InitSpecNew /\ [][NextNew]_vars

\* the step "workload with backup" from its start, with the stop signal
\* arriving at any moment
NextPhase ==
    \/ BurstSpawn
    \/ \E branch \in {"tick", "stop"} : BurstSelect(branch)
    \/ SpawnWorker
    \/ SpawnBackup
    \/ WaitGroupWait
    \/ \E w \in Workers : WorkerStart(w)
    \/ \E w \in Workers, branch \in {"tick", "stop"} : WorkerSelect(w, branch)
    \/ \E r \in Runs, ok \in BOOLEAN : RunAcquire(r, ok)
    \/ \E r \in Runs, ok \in BOOLEAN : RunUpsert(r, ok)
    \/ \E r \in Runs, branch \in {"done", "stop", "tick"} : RunSelect(r, branch)
    \/ \E ok \in BOOLEAN : BackupAcquire(ok)
    \/ \E ok \in BOOLEAN : BackupExec(ok)
    \/ BackupStop
    \/ Signal

InitSpecPhase == InitPhase /\ GenIdle /\ TryIdle /\ PureIdle

SpecPhase == InitSpecPhase /\ [][NextPhase]_vars

\* every goroutine that can take a step is eventually scheduled, and a select
\* with a ready branch eventually takes one
FairPhase ==
    /\ WF_vars(BurstSpawn)
    /\ WF_vars(\E branch \in {"tick", "stop"} : BurstSelect(branch))
    /\ \A w \in Workers :
          /\ WF_vars(WorkerStart(w))
          /\ WF_vars(\E branch \in {"tick", "stop"} : WorkerSelect(w, branch))
    /\ \A r \in Runs :
          /\ WF_vars(\E ok \in BOOLEAN : RunAcquire(r, ok))
          /\ WF_vars(\E ok \in BOOLEAN : RunUpsert(r, ok))
          /\ WF_vars(\E branch \in {"done", "stop", "tick"} : RunSelect(r, branch))

LiveSpecPhase == SpecPhase /\ FairPhase

\* one run of the s3 command
Next ==
    \/ \E ok \in BOOLEAN : CmdS3FromEnv(ok)
    \/ NewPreflight
    \/ \E ok \in BOOLEAN : NewPool(ok)
    \/ \E ok \in BOOLEAN : NewAcquire(ok)
    \/ \E ok \in BOOLEAN : NewCreateSourceDb(ok)
    \/ \E ok \in BOOLEAN : NewCreateSourceTable(ok)
    \/ \E ok \in BOOLEAN : NewPendingJobs(ok)
    \/ \E ok \in BOOLEAN : NewCreateRestoredDb(ok)
    \/ \E ok \in BOOLEAN : ValAcquire(ok)
    \/ \E ok \in BOOLEAN : ExtDropShow(ok)
    \/ \E ok \in BOOLEAN : ExtDropExec(ok)
    \/ \E ok \in BOOLEAN : ExtCreate(ok)
    \/ \E ok \in BOOLEAN : ExtList(ok)
    \/ \E ctxErr \in {"", "context canceled"} : StepBegin(ctxErr)
    \/ ValReturnReport
    \/ \E ok \in BOOLEAN : StepAcquire(ok)
    \/ \E r \in {"version error", "query error", "rows"} : StatsExec(r)
    \/ BurstSpawn
    \/ \E branch \in {"tick", "stop"} : BurstSelect(branch)
    \/ SpawnWorker
    \/ SpawnBackup
    \/ WaitGroupWait
    \/ \E w \in Workers : WorkerStart(w)
    \/ \E w \in Workers, branch \in {"tick", "stop"} : WorkerSelect(w, branch)
    \/ \E r \in Runs, ok \in BOOLEAN : RunAcquire(r, ok)
    \/ \E r \in Runs, ok \in BOOLEAN : RunUpsert(r, ok)
    \/ \E r \in Runs, branch \in {"done", "stop", "tick"} : RunSelect(r, branch)
    \/ \E ok \in BOOLEAN : BackupAcquire(ok)
    \/ \E ok \in BOOLEAN : BackupExec(ok)
    \/ BackupStop
    \/ Signal
    \/ \E ok \in BOOLEAN : IncrExec(ok)
    \/ \E r \in {"list error", "info error", "listed"} : CheckExec(r)
    \/ \E ok \in BOOLEAN : RestoreExec(ok)
    \/ \E ok \in BOOLEAN : VerifyAcquire(ok)
    \/ \E r \in {"source error", "restored error", "compare"} : VerifyExec(r)
    \/ \E ok \in BOOLEAN : DeferDropShow(ok)
    \/ \E ok \in BOOLEAN : DeferDropExec(ok)
    \/ ValRelease
    \/ CmdAfterValidate
    \/ \E ok \in BOOLEAN : CleanAcquire(ok)
    \/ \E ok \in BOOLEAN : CleanDropSource(ok)
    \/ \E ok \in BOOLEAN : CleanDropRestored(ok)

Init == InitRun /\ GenIdle /\ TryIdle /\ PureIdle

Spec == Init /\ [][Next]_vars

(***************************************************************************)
(* Properties of the validation run                                        *)
(***************************************************************************)
\* a Workload.Run goroutine that has been started and has not returned
RunActive(r) == runPc[r] \in {"acquire", "upsert", "select"}

\* statement stmt has been issued
Issued(stmt) == \E i \in 1..Len(issued) : issued[i] = stmt

\* C5: once the incremental BACKUP statement has been issued, no
\* Workload.Run loop of the initial burst or of a worker is still executing,
\* so that no upsert to the source table can follow it.
C5_IncrementalAfterWorkersStopped ==
    Issued("incremental") => \A r \in Runs : ~RunActive(r)

\* C6: with at least one worker configured, the step that issues the full
\* BACKUP statement is taken while the write loop of at least one worker is
\* active.
C6_FullBackupWhileWorkloadFlows ==
    [][(bPc = "exec" /\ bPc' # "exec" /\ runEnv.Workers >= 1)
          => \E w \in 1..runEnv.Workers : RunActive(w)]_vars

\* C7: the phases that have started are a prefix of the ordered list of
\* phases; once a phase has returned an error it is the last phase started,
\* Validate returns an error and no Report, and the error RunE returns names
\* that phase.
C7_PhasesInOrderFirstErrorAborts ==
    /\ Len(phaseLog) <= NumSteps
    /\ \A i \in 1..Len(phaseLog) : phaseLog[i] = Steps[i]
    /\ \A s \in phaseErrs :
          /\ phaseLog[Len(phaseLog)] = s
          /\ valResult.kind = "error"
          /\ valResult.step = s
          /\ ~valResult.report.present
          /\ cmdResult.returned =>
                /\ cmdResult.err = "failed during step: " \o s \o ": " \o valResult.err
                /\ ~cmdResult.printed.present

\* a phase fails in the middle of a run, and the command has returned
C7_Witness ==
    /\ cmdResult.returned
    /\ phaseErrs = {"incremental backup"}
    /\ phaseLog = SubSeq(Steps, 1, 3)

\* C8: when the fingerprints of the source and the restored table differ,
\* Validate returns the Report with the chosen parameters and the captured
\* stats, and RunE prints it and returns no error.
C8_MismatchStillReports ==
    (integrity = "mismatch" /\ valResult.kind # "none") =>
        /\ valResult = ValReport(Report(Params(blobStorage), stats))
        /\ cmdResult.returned =>
              /\ cmdResult.err = ""
              /\ cmdResult.printed = valResult.report

\* the fingerprints differed and the command has returned
C8_Witness ==
    /\ integrity = "mismatch"
    /\ cmdResult.returned
    /\ stats = StatsRows

\* C9: when the command has returned, neither the source nor the restored
\* database exists any more.
C9_DatabasesDroppedOnExit ==
    cmdResult.returned => (~db.srcDb /\ ~db.restoredDb)

\* the drops Clean has attempted that failed
FailedDrops == {i \in 1..Len(cleanLog) : ~cleanLog[i].ok}

\* the error Clean wraps around a failed drop of database d
DropError(d) == "failed to drop " \o d \o " database"

\* what the claim says of a Clean that has attempted its drops
BothDropsCombined ==
    /\ Len(cleanLog) = 2
    /\ cleanLog[1].db = "source"
    /\ cleanLog[2].db = "restored"
    /\ (cleanResult.errs # {}) <=> (FailedDrops # {})
    /\ cleanResult.errs = {DropError(cleanLog[i].db) : i \in FailedDrops}

\* C10 as stated: whenever Clean has returned, it has attempted both drops,
\* it reports an error iff at least one drop failed, and the error carries
\* every drop failure.
C10_ErrorIffDropFailed == cleanResult.returned => BothDropsCombined

\* C10, amended: a Clean that acquired its connection has attempted both
\* drops, reports an error iff at least one drop failed, and the error
\* carries every drop failure; a Clean that could not acquire a connection
\* has attempted no drop and reports that failure.
C10_DropsCombinedOnceConnected ==
    cleanResult.returned =>
        IF cleanResult.acquireErr
        THEN /\ cleanLog = <<>>
             /\ cleanResult.errs = {"failed to acquire database connection"}
        ELSE BothDropsCombined

\* both drops failed
C10_Witness ==
    /\ cleanResult.returned
    /\ Len(cleanLog) = 2
    /\ FailedDrops = {1, 2}

(***************************************************************************)
(* Properties of the external connection                                   *)
(***************************************************************************)
\* Validate has returned to RunE, its deferred calls included
ValidateReturned ==
    /\ valResult.kind # "none"
    /\ mainPc \in {"valReturned", "cleanAcquire", "cleanDropSource",
                   "cleanDropRestored", "exit"}

\* the CREATE EXTERNAL CONNECTION statement of this run succeeded
ExtRegistered ==
    \/ dropDeferred
    \/ valResult = ValError("", ExtConnError("external connection failed"))

\* C11: after Validate has returned, a connection this run registered under
\* the reserved name is no longer registered in the database.
C11_ExtConnDroppedAtTeardown ==
    (ValidateReturned /\ ExtRegistered) => ~db.extConn

(***************************************************************************)
(* Properties of checkBackups                                              *)
(***************************************************************************)
\* the full entries among those BackupInfo returned
FullEntries == {i \in 1..Len(chkInfo) : chkInfo[i].full}

\* C12: checkBackups succeeds iff there is exactly one collection and it
\* holds exactly two entries of which exactly one is full; two full entries
\* fail with the message "expected exactly 1 full backup, got 2".
C12_CheckBackupsShape ==
    chkErr # Pending =>
        /\ (chkErr = "") <=>
              /\ Cardinality(chkBackups) = 1
              /\ Len(chkInfo) = 2
              /\ Cardinality(FullEntries) = 1
        /\ (Cardinality(chkBackups) = 1 /\ Len(chkInfo) = 2 /\ FullEntries = {1, 2})
              => chkErr = "expected exactly 1 full backup, got 2"

\* one collection of two full entries has been checked
C12_Witness ==
    /\ chkErr # Pending
    /\ Cardinality(chkBackups) = 1
    /\ Len(chkInfo) = 2
    /\ FullEntries = {1, 2}

\* the statements of kind stmt issued so far
IssuedAt(stmt) == {i \in 1..Len(issued) : issued[i] = stmt}

\* C13: once the check-backups phase has started, exactly one full and one
\* incremental BACKUP have been issued, the full one first, and the full
\* backup had completed when the incremental one was issued.
C13_BackupsInPairs ==
    (Len(phaseLog) >= 4) =>
        /\ Cardinality(IssuedAt("full")) = 1
        /\ Cardinality(IssuedAt("incremental")) = 1
        /\ issued[1] = "full"
        /\ issued[2] = "incremental"
        /\ Len(db.backups) = 2
        /\ db.backups[1].full
        /\ ~db.backups[2].full
        /\ bPc = "done"

\* the check-backups phase has started
C13_Witness ==
    /\ Len(phaseLog) >= 4
    /\ phaseLog[4] = "check backups"
    /\ runEnv.Workers >= 1

(***************************************************************************)
(* Properties of Workload.Run                                              *)
(***************************************************************************)
\* C14: Run writes before it looks at any signal, and with done closed or the
\* stop signal raised it does not write again: it leaves its select only by
\* returning nil, so that a Run entered under a signal issues exactly one
\* upsert; a Run has returned nil only after a write.
C14_OneWriteThenSignal ==
    /\ [](\A r \in Runs : runPc[r] = "done" => db.srcRows >= 1)
    /\ [][\A r \in Runs :
            (runPc[r] = "select" /\ (doneClosed[r] \/ stopping))
                => runPc'[r] \in {"select", "done"}]_vars

\* a Run entered with done closed has written once and returned nil, the
\* other Runs not having written
C14_Witness ==
    /\ doneClosed[0]
    /\ runPc[0] = "done"
    /\ db.srcRows = 1
    /\ \A r \in Runs \ {0} : runPc[r] = "upsert"

\* C15: a Run that leaves its Upsert without the row written has returned
\* the error, and a Run that has returned an error takes no further step.
C15_WriteErrorEndsLoop ==
    [][\A r \in Runs :
          /\ (runPc[r] = "upsert" /\ runPc'[r] # "upsert" /\ db'.srcRows = db.srcRows)
                => runPc'[r] = "failed"
          /\ runPc[r] = "failed" => runPc'[r] = "failed"]_vars

\* a Run has returned a write error after an earlier write of its own
C15_Witness ==
    /\ runPc[0] = "failed"
    /\ db.srcRows >= 1
    /\ \A r \in Runs \ {0} : runPc[r] = "upsert"

(***************************************************************************)
(* Properties of cancellation                                              *)
(***************************************************************************)
\* no runWorkload call is waiting in its select or about to
WaitsReturned ==
    /\ mainPc \notin {"burstSpawn", "burstSelect"}
    /\ \A w \in Workers : wPc[w] \in {"idle", "done"}

\* no Workload.Run goroutine is running or about to
RunsReturned == \A r \in Runs : ~RunActive(r)

\* C16: once the stop signal is raised, every runWorkload wait and every
\* Workload.Run loop eventually returns, and a Run that leaves its select
\* under the stop signal returns nil, whether or not done was ever closed.
C16_StopEndsWaitsAndLoops ==
    /\ stopping ~> (WaitsReturned /\ RunsReturned)
    /\ [][\A r \in Runs :
            (stopping /\ runPc[r] = "select") => runPc'[r] \in {"select", "done"}]_vars

\* a worker's wait and its Run loop have returned nil under the stop signal
\* without done ever having been closed
C16_Witness ==
    /\ stopping
    /\ runEnv.Workers >= 1
    /\ ~doneClosed[1]
    /\ wPc[1] = "done"
    /\ runPc[1] = "done"
    /\ WaitsReturned
    /\ RunsReturned

(***************************************************************************)
(* Properties of New                                                       *)
(***************************************************************************)
\* one of the five inputs the preflight is to reject
BadInput ==
    \/ runEnv = NilEnv
    \/ blobStorage = NilStorage
    \/ runEnv.DatabaseURL = ""
    \/ runEnv.Workers < 0
    \/ runEnv.WorkloadDuration <= 0

\* New has returned an error
NewFailed == mainPc = "exit" /\ cmdResult.returned /\ cmdResult.err # ""

\* no pool was created, no connection acquired, no database created and no
\* statement issued
NothingCreated ==
    /\ mainPc \in {"new", "exit"}
    /\ inUse = 0
    /\ ~db.srcDb
    /\ ~db.restoredDb
    /\ issued = <<>>
    /\ ~dropDeferred

C18_PendingJobsFailSetup ==
    db.pendingJobs > 0 =>
        /\ mainPc \in {"start", "new", "newPool", "newAcquire", "newSourceDb",
                       "newSourceTable", "newPendingJobs", "exit"}
        /\ (cmdResult.returned /\ ~runEnv.Guess) => cmdResult.err # ""
        /\ ~cmdResult.printed.present \/ runEnv.Guess
        /\ ~db.restoredDb
        /\ issued = <<>>
        /\ phaseLog = <<>>
        /\ ~dropDeferred
        /\ valResult = ValNone
        /\ cleanLog = <<>>
        /\ ~cleanResult.returned
        /\ \A r \in Runs : runPc[r] = "idle"
        /\ \A w \in Workers : wPc[w] = "idle"
        /\ bPc = "idle"

\* RunE has returned the pending-jobs error; the source database exists
C18_Witness ==
    /\ db.pendingJobs > 0
    /\ mainPc = "exit"
    /\ cmdResult.returned
    /\ cmdResult.err = "pending jobs found on source table"
    /\ inUse = 0
    /\ db.srcDb
    /\ ~db.restoredDb

(***************************************************************************)
(* Properties of NewExternalConn                                           *)
(***************************************************************************)
\* C19: the CREATE of NewExternalConn is only ever issued with no connection
\* of the reserved name in place: it is reached either from a query that
\* found none or from a DROP that succeeded, and a failed query or DROP ends
\* NewExternalConn with an error and the cluster as it was.
C19_DropBeforeCreate ==
    /\ [](mainPc = "extCreate" => ~db.extConn)
    /\ [][(mainPc # "extCreate" /\ mainPc' = "extCreate")
          => \/ mainPc = "extShow" /\ ~db.extConn /\ db' = db
             \/ mainPc = "extDropExec" /\ db.extConn /\ ~db'.extConn]_vars
    /\ [][(mainPc \in {"extShow", "extDropExec"}
           /\ mainPc' \notin {"extShow", "extDropExec", "extCreate"})
          => /\ mainPc' = "valRelease"
             /\ valResult'.kind = "error"
             /\ db' = db]_vars

\* Drop has found a connection left behind by an earlier run and is about to
\* issue its DROP
C19_Witness ==
    /\ mainPc = "extDropExec"
    /\ db.extConn
    /\ ~dropDeferred
    /\ inUse = 1

\* C20: NewExternalConn fails with the registration error whenever the
\* listing issued right after a successful CREATE fails, the connection
\* staying in place, and it returns without error only from a listing that
\* succeeded after a CREATE that succeeded.
C20_ListingFailureFailsRegistration ==
    /\ [](mainPc = "extList" => db.extConn)
    /\ [][ExtList(FALSE)
          => /\ mainPc' = "valRelease"
             /\ valResult' =
                  ValError("", ExtConnError("external connection failed"))
             /\ db'.extConn
             /\ ~dropDeferred']_vars
    /\ [][ExtList(TRUE)
          => /\ mainPc' = "loop"
             /\ valResult' = ValNone
             /\ dropDeferred'
             /\ db'.extConn]_vars
    /\ [][(~dropDeferred /\ dropDeferred') => mainPc = "extList"]_vars

\* Validate is returning the registration error with the connection created
\* and no drop deferred
C20_Witness ==
    /\ valResult = ValError("", ExtConnError("external connection failed"))
    /\ mainPc = "valRelease"
    /\ db.extConn
    /\ ~dropDeferred

(***************************************************************************)
(* Properties of ExternalConn.Drop                                         *)
(***************************************************************************)
\* C21: a Drop of a connection that is not registered, its query answered,
\* returns nil without issuing the DROP and leaves the cluster as it was; a
\* Drop that returned nil leaves the connection unregistered and the other
\* connections in place; and a Drop that follows one that returned nil
\* issues no DROP, leaves the cluster as the first left it and returns nil
\* again (unless the database fails to answer its query).
C21_DropIdempotent ==
    \A i \in 1..Len(dropLog) :
        LET c == dropLog[i] IN
        /\ (dropName \notin c.before /\ c.err # "query failed")
              => (c.err = "" /\ ~c.issued /\ c.after = c.before)
        /\ c.err = "" => c.after = c.before \ {dropName}
        /\ (i > 1 /\ dropLog[i - 1].err = "")
              => /\ c.err \in {"", "query failed"}
                 /\ ~c.issued
                 /\ c.after = dropLog[i - 1].after

\* Drop removed a registered connection, and a second Drop right after it
\* returned nil too
C21_Witness ==
    /\ Len(dropLog) >= 2
    /\ dropName \in dropLog[1].before
    /\ dropLog[1].issued
    /\ dropLog[1].err = ""
    /\ dropLog[2].err = ""
    /\ ~dropLog[2].issued
    /\ dropLog[2].after = dropLog[1].after

(***************************************************************************)
(* Properties of the statistics                                            *)
(***************************************************************************)
\* C22: on a cluster whose version is below v25.1.0, Stats returns no rows
\* and no error once the version is known, a failure of the connectivity
\* check cannot fail the step because the check is not issued, and the
\* report the run ends with has no stats.
C22_StatsVersionGated ==
    /\ [](db.oldVersion =>
            /\ stats = <<>>
            /\ valResult.kind = "report" => valResult.report.stats = <<>>
            /\ cmdResult.printed.present => cmdResult.printed.stats = <<>>)
    /\ [][(db.oldVersion /\ (StatsExec("rows") \/ StatsExec("query error")))
          => /\ stats' = <<>>
             /\ phaseErrs' = phaseErrs
             /\ mainPc' = "loop"
             /\ stepIdx' = stepIdx + 1]_vars

\* a run on an old cluster has printed its report, without stats, and
\* returned no error
C22_Witness ==
    /\ db.oldVersion
    /\ ~runEnv.Guess
    /\ cmdResult.returned
    /\ cmdResult.err = ""
    /\ cmdResult.printed.present
    /\ cmdResult.printed.stats = <<>>
    /\ Len(phaseLog) = NumSteps

(***************************************************************************)
(* Properties of the s3Store parameters                                    *)
(***************************************************************************)
\* the keys whose values are not to be displayed
Sensitive == {SecretParam, TokenParam}

\* the map the last Params() of run r returned
Shown(r) == stHeap[r][stShown[r]]

\* C23: for two runs that differ only in the values of the secret and of the
\* session token, what Params() returns is identical and shows the marker
\* under both keys, while the query of URL() carries the escaped real value
\* of each run.
C23_SecretsNeverDisplayed ==
    /\ (\A r \in Sides : stShown[r] # 0) =>
          /\ Shown(1) = Shown(2)
          /\ \A r \in Sides : \A k \in Sensitive \cap DOMAIN stEnv[r] :
                /\ k \in DOMAIN Shown(r)
                /\ Shown(r)[k] = "******"
    /\ \A r \in Sides : stURL[r] # NoURL =>
          \A k \in Sensitive \cap DOMAIN stEnv[r] :
              \E i \in 1..Len(stURL[r].pairs) :
                  stURL[r].pairs[i] = <<k, QueryEscaped[stEnv[r][k]]>>

\* two runs with different secrets and tokens have both displayed their
\* parameters and both built their URL
C23_Witness ==
    /\ TokenParam \in DOMAIN stEnv[1]
    /\ stEnv[1][SecretParam] # stEnv[2][SecretParam]
    /\ stEnv[1][TokenParam] # stEnv[2][TokenParam]
    /\ \A r \in Sides : stShown[r] # 0 /\ stURL[r] # NoURL
    /\ Shown(1) = Shown(2)
    /\ stURL[1].str # stURL[2].str

\* C24: a Params() call returns a map other than the store's, leaves the
\* store's own map as it was, and the map returned has the keys of the
\* store's and its values except under the two sensitive keys; the store
\* keeps the real secret and token whatever the number of calls.
C24_ParamsReturnsCopy ==
    /\ [][StoreParams =>
            \A r \in Sides :
                /\ stShown'[r] # 1
                /\ stHeap'[r][1] = stHeap[r][1]
                /\ DOMAIN stHeap'[r][stShown'[r]] = DOMAIN stHeap[r][1]
                /\ \A k \in DOMAIN stHeap[r][1] \ Sensitive :
                      stHeap'[r][stShown'[r]][k] = stHeap[r][1][k]]_vars
    /\ [](\A r \in Sides : \A k \in DOMAIN stEnv[r] \ {RegionParam} :
            k \in DOMAIN stHeap[r][1] /\ stHeap[r][1][k] = stEnv[r][k])

\* Params() was called twice and the store still holds the real secret
C24_Witness ==
    /\ \A r \in Sides : Len(stHeap[r]) >= 3
    /\ \A r \in Sides : stHeap[r][1][SecretParam] = stEnv[r][SecretParam]
    /\ \A r \in Sides : stHeap[r][3][SecretParam] = "******"

\* the keys addParam is to accept
Recognized ==
    {"AWS_ACCESS_KEY_ID", "AWS_SECRET_ACCESS_KEY", "AWS_SESSION_TOKEN",
     "AWS_ENDPOINT", "AWS_REGION", "AWS_USE_PATH_STYLE", "AWS_SKIP_CHECKSUM",
     "AWS_SKIP_TLS_VERIFY"}

\* C25: addParam with a key outside the recognized set returns the
\* invalid-parameter error and leaves the parameters as they were; with a
\* recognized key it returns no error and the parameters are those before
\* with the value under that key; the keys of a store are always recognized
\* ones.
C25_AddParamRejectsUnknownKeys ==
    /\ [][\A key \in AddKeys : StoreAddParam(key) =>
            IF key \in Recognized
            THEN /\ stErr' = ""
                 /\ \A r \in Sides :
                       /\ DOMAIN stHeap'[r][1] = DOMAIN stHeap[r][1] \cup {key}
                       /\ stHeap'[r][1][key] = "true"
                       /\ \A k \in DOMAIN stHeap[r][1] \ {key} :
                             stHeap'[r][1][k] = stHeap[r][1][k]
            ELSE /\ stErr' = "invalid param"
                 /\ stHeap' = stHeap]_vars
    /\ [](\A r \in Sides : DOMAIN stHeap[r][1] \subseteq Recognized)

\* addParam has just rejected a key, the store holding a toggle set before
C25_Witness ==
    /\ stErr = "invalid param"
    /\ \A r \in Sides : UsePathStyleParam \in DOMAIN stHeap[r][1]
    /\ \A r \in Sides : stHeap[r][1][UsePathStyleParam] = "true"

\* a sorts before b byte by byte
BytewiseBefore(a, b) ==
    LET x == Bytes(a)
        y == Bytes(b)
    IN  \E n \in 0..Len(x) :
            /\ n <= Len(y)
            /\ \A i \in 1..n : x[i] = y[i]
            /\ \/ n = Len(x) /\ n < Len(y)
               \/ n < Len(x) /\ n < Len(y) /\ x[n + 1] < y[n + 1]

\* C27: the query of a URL holds every entry of the parameters exactly once,
\* in ascending byte-wise order of the keys, and the URLs built from two
\* equal parameter sets are the same string whatever order each map handed
\* its keys out in.
C27_IterationSorted ==
    /\ \A r \in Sides : stURL[r] # NoURL =>
          LET u == stURL[r] IN
          /\ Len(u.pairs) = Cardinality(DOMAIN u.of)
          /\ \A k \in DOMAIN u.of :
                \E i \in 1..Len(u.pairs) :
                    u.pairs[i] = <<QueryEscaped[k], QueryEscaped[u.of[k]]>>
          /\ \A i \in 1..(Len(u.pairs) - 1) :
                BytewiseBefore(u.pairs[i][1], u.pairs[i + 1][1])
    /\ \A r1 \in Sides, r2 \in Sides :
          (stURL[r1] # NoURL /\ stURL[r2] # NoURL /\ stURL[r1].of = stURL[r2].of)
              => stURL[r1].str = stURL[r2].str

\* two stores holding the same five parameters have built the same URL
C27_Witness ==
    /\ stURL[1] # NoURL
    /\ stURL[1] = stURL[2]
    /\ Len(stURL[1].pairs) = 5
    /\ stURL[1].pairs[1][1] = "AWS_ACCESS_KEY_ID"
    /\ stURL[1].pairs[5][1] = "AWS_USE_PATH_STYLE"

(***************************************************************************)
(* Properties of the guess flag                                            *)
(***************************************************************************)
\* C28: with the guess flag set the command goes from discovery straight to
\* its return: what it prints is the suggested parameters of the discovered
\* storage, without stats, and no pool connection, database, external
\* connection, goroutine of the workload, backup, restore, Validate or Clean
\* is ever reached.
C28_GuessOnlyDiscovers ==
    /\ [](runEnv.Guess =>
            /\ mainPc \in {"start", "exit"}
            /\ inUse = 0
            /\ ~db.srcDb
            /\ ~db.restoredDb
            /\ db.srcRows = 0
            /\ db.backups = <<>>
            /\ issued = <<>>
            /\ phaseLog = <<>>
            /\ ~dropDeferred
            /\ valResult = ValNone
            /\ cleanLog = <<>>
            /\ \A r \in Runs : runPc[r] = "idle"
            /\ \A w \in Workers : wPc[w] = "idle"
            /\ bPc = "idle"
            /\ (cmdResult.returned /\ cmdResult.err = "") =>
                  /\ cmdResult.printed.present
                  /\ cmdResult.printed.params = Params(blobStorage)
                  /\ cmdResult.printed.stats = <<>>)
    /\ [][runEnv.Guess => db' = db]_vars

\* a guess run has printed the suggested parameters and returned
C28_Witness ==
    /\ runEnv.Guess
    /\ mainPc = "exit"
    /\ cmdResult.returned
    /\ cmdResult.err = ""
    /\ cmdResult.printed.present
    /\ cmdResult.printed.params = Params(DiscoveredStore)
    /\ db.extConn

(***************************************************************************)
(* Properties of the credentials lookup                                    *)
(***************************************************************************)
\* one of the two required credentials is not in the environment
MissingCredential == \E k \in {AccountParam, SecretParam} : k \notin DOMAIN envVars

\* C26: when AWS_ACCESS_KEY_ID or AWS_SECRET_ACCESS_KEY is absent from the
\* environment, S3FromEnv returns ErrMissingParam and no storage, and no
\* store is built, no candidate is reached and no operation on the bucket
\* is issued.
C26_MissingCredentialFailsFirst ==
    MissingCredential =>
        /\ tryPc \in {"start", "done"}
        /\ tryPc = "done" => tryResult = Failed(ErrMissingParam, "")
        /\ tryResult.kind # "storage"
        /\ tryStore = EmptyParams
        /\ tryIdx = 0
        /\ opsLog = <<>>
        /\ bucketObj = Absent

\* S3FromEnv has returned on an environment that has the secret but not the
\* access key
C26_Witness ==
    /\ AccountParam \notin DOMAIN envVars
    /\ SecretParam \in DOMAIN envVars
    /\ tryPc = "done"
    /\ tryResult.kind = "error"
    /\ tryResult.err = ErrMissingParam

(***************************************************************************)
(* Properties of a candidate's connectivity failure                        *)
(***************************************************************************)
\* the operations whose failure is local to the candidate
LocalFailure(o) == o.op \in {"list", "put"} /\ ~o.ok

\* C30: when the list operation, or after a successful list the write of
\* the probe object, fails for a candidate, no further operation is issued
\* for that candidate and discovery goes on with the next candidate: the
\* failing step sets no result, and an error is returned afterwards only
\* for the next candidate or when there is none left.
C30_LocalFailureMovesOn ==
    /\ [](\A k \in 1..Len(opsLog) :
            LocalFailure(opsLog[k]) =>
               /\ opsLog[k].op = "put" =>
                     /\ k > 1
                     /\ opsLog[k-1] = Op(opsLog[k].cand, "list", TRUE)
               /\ \A j \in (k+1)..Len(opsLog) : opsLog[j].cand > opsLog[k].cand
               /\ k < Len(opsLog) =>
                     /\ opsLog[k+1].cand = opsLog[k].cand + 1
                     /\ opsLog[k+1].op = "list"
               /\ (k = Len(opsLog) /\ tryPc = "done") =>
                     \/ /\ tryResult = Failed("load config", "")
                        /\ tryIdx = opsLog[k].cand + 1
                     \/ /\ tryResult = Failed(ErrUnreachable, Dest)
                        /\ opsLog[k].cand = NumCandidates)
    /\ [][(TryList(FALSE) \/ TryPut(FALSE)) =>
             /\ tryPc' = "loop"
             /\ tryIdx' = tryIdx + 1
             /\ tryResult = NoResult
             /\ tryResult' = NoResult]_vars

\* the list failed for the first candidate, the write failed for the second
\* one after its list succeeded, and the third candidate is being probed
C30_Witness ==
    /\ Len(opsLog) >= 4
    /\ opsLog[1] = Op(1, "list", FALSE)
    /\ opsLog[2] = Op(2, "list", TRUE)
    /\ opsLog[3] = Op(2, "put", FALSE)
    /\ opsLog[4].cand = 3

(***************************************************************************)
(* Properties of the rendering of a report                                 *)
(***************************************************************************)
\* C29: once format.Report has returned, a report with nil Stats has
\* produced the Suggested Parameters table and nothing else; a report with
\* N stats rows has produced, after it, a Statistics table with N data rows
\* that follow the input order, the status of each row being "OK" when the
\* ErrStr of its input is empty and that ErrStr otherwise.
C29_ReportRendering ==
    fmtPc = "done" =>
        /\ fmtOut[1].title = "Suggested Parameters"
        /\ fmtReport.Stats.nil => Len(fmtOut) = 1
        /\ ~fmtReport.Stats.nil =>
              /\ Len(fmtOut) = 2
              /\ fmtOut[2].title = "Statistics"
              /\ Len(fmtOut[2].rows) = Len(fmtReport.Stats.rows)
              /\ \A i \in 1..Len(fmtReport.Stats.rows) :
                    /\ fmtOut[2].rows[i][1] = fmtReport.Stats.rows[i].Node
                    /\ fmtOut[2].rows[i][2] = fmtReport.Stats.rows[i].ReadSpeed
                    /\ fmtOut[2].rows[i][3] = fmtReport.Stats.rows[i].WriteSpeed
                    /\ fmtReport.Stats.rows[i].ErrStr = "" =>
                          fmtOut[2].rows[i][4] = "OK"
                    /\ fmtReport.Stats.rows[i].ErrStr # "" =>
                          fmtOut[2].rows[i][4] = fmtReport.Stats.rows[i].ErrStr

\* a report of two nodes has been rendered, the first node with an error
\* and the second without
C29_Witness ==
    /\ fmtPc = "done"
    /\ ~fmtReport.Stats.nil
    /\ Len(fmtReport.Stats.rows) = 2
    /\ fmtReport.Stats.rows[1].Node = 2
    /\ fmtReport.Stats.rows[1].ErrStr = "timeout"
    /\ fmtReport.Stats.rows[2].Node = 1
    /\ fmtReport.Stats.rows[2].ErrStr = ""
    /\ Len(fmtOut) = 2
    /\ Len(fmtOut[2].rows) = 2

\* a report without stats has been rendered
C29_WitnessNil ==
    /\ fmtPc = "done"
    /\ fmtReport.Stats.nil
    /\ Len(fmtOut) = 1

(***************************************************************************)
(* Properties of the failures that end discovery                           *)
(***************************************************************************)
\* the last operation logged
LastOp == opsLog[Len(opsLog)]

\* C31: when the content read back for a candidate, after its write
\* succeeded, is not the content written, try returns the
\* unexpected-content error and no storage at that step, and no operation
\* is issued afterwards, for that candidate or a later one.
C31_MismatchAbortsDiscovery ==
    /\ [](tryGot \notin {"", content} =>
            /\ tryPc = "done"
            /\ tryResult = Failed("unexpected content", "")
            /\ LastOp = Op(tryIdx, "get", FALSE)
            /\ opsLog[Len(opsLog) - 1] = Op(tryIdx, "put", TRUE)
            /\ \A k \in 1..Len(opsLog) : opsLog[k].cand <= tryIdx)
    /\ [][(tryPc = "get" /\ tryGot' \notin {"", content}) =>
            /\ tryPc' = "done"
            /\ tryResult'.kind = "error"
            /\ tryIdx' = tryIdx]_vars

\* the second candidate read back something else than what it wrote, and
\* later candidates exist
C31_Witness ==
    /\ tryPc = "done"
    /\ tryIdx = 2
    /\ tryIdx < NumCandidates
    /\ tryGot = Garbage
    /\ tryResult.kind = "error"

\* C32: when DeleteObject fails, after list, put and read-back of the
\* candidate succeeded, try returns that error and no storage, and no later
\* candidate is probed.
C32_DeleteFailurePropagates ==
    /\ []((opsLog # <<>> /\ LastOp.op = "delete" /\ ~LastOp.ok) =>
            /\ tryPc = "done"
            /\ tryResult = Failed("delete error", "")
            /\ LastOp.cand = tryIdx
            /\ Len(opsLog) >= 4
            /\ opsLog[Len(opsLog) - 3] = Op(tryIdx, "list", TRUE)
            /\ opsLog[Len(opsLog) - 2] = Op(tryIdx, "put", TRUE)
            /\ opsLog[Len(opsLog) - 1] = Op(tryIdx, "get", TRUE))
    /\ [][TryDelete(FALSE) =>
            /\ tryPc' = "done"
            /\ tryResult'.kind = "error"
            /\ tryResult'.err = "delete error"]_vars
    /\ [][(tryPc = "done") => opsLog' = opsLog]_vars

\* the delete of the first candidate failed, with later candidates left
C32_Witness ==
    /\ tryPc = "done"
    /\ tryIdx = 1
    /\ opsLog = <<Op(1, "list", TRUE), Op(1, "put", TRUE), Op(1, "get", TRUE),
                  Op(1, "delete", FALSE)>>
    /\ tryResult.kind = "error"

(***************************************************************************)
(* Properties of the probe of one candidate                                *)
(***************************************************************************)
\* the operations logged for candidate c, in order
OpsOf(c) == SelectSeq(opsLog, LAMBDA o : o.cand = c)

\* the order of the operations of a probe
ProbeOrder == <<"list", "put", "get", "delete">>

\* C33: the operations issued for one candidate are list, put, get, delete
\* in that order, each at most once, and each one only after all the earlier
\* ones of that candidate succeeded; a candidate is returned only after its
\* four operations succeeded.
C33_ProbeOrderAndSingleAttempt ==
    /\ \A c \in 1..NumCandidates :
          /\ Len(OpsOf(c)) <= Len(ProbeOrder)
          /\ \A i \in 1..Len(OpsOf(c)) :
                /\ OpsOf(c)[i].op = ProbeOrder[i]
                /\ i < Len(OpsOf(c)) => OpsOf(c)[i].ok
    /\ tryResult.kind = "storage" =>
          OpsOf(tryResult.idx) = [i \in 1..Len(ProbeOrder) |->
                                     Op(tryResult.idx, ProbeOrder[i], TRUE)]

\* the second candidate was returned after the write of the first one failed
C33_Witness ==
    /\ tryResult.kind = "storage"
    /\ tryResult.idx = 2
    /\ OpsOf(1) = <<Op(1, "list", TRUE), Op(1, "put", FALSE)>>
    /\ Len(OpsOf(2)) = 4

(***************************************************************************)
(* Properties of what discovery leaves in the bucket                       *)
(***************************************************************************)
\* C38: whenever try has returned, with a candidate or with an error, the
\* probe object is not in the bucket.
C38_NoProbeObjectLeft ==
    tryPc = "done" => bucketObj = Absent

\* try has returned PutObject's object unread: the read-back failed
C38_LeftAfterGetError ==
    /\ tryPc = "done"
    /\ bucketObj = content
    /\ LastOp.op = "get"
    /\ tryResult.kind = "error"

(***************************************************************************)
(* Properties of a failure inside the concurrent phase                     *)
(***************************************************************************)
\* the full-backup task has returned an error: it could not acquire its
\* connection, or its BACKUP statement failed
BackupTaskFailed ==
    \/ bPc = "failed"
    \/ bPc = "done" /\ ListTableBackups(db.backups) = {}

\* the phases that follow "workload with backup"
LaterPhases == {Steps[i] : i \in 3..NumSteps}

\* C34: when the full-backup task returned an error, no phase after
\* "workload with backup" is started, and what Validate returns is an error
\* naming that phase.
C34_ConcurrentFailureFailsPhase ==
    BackupTaskFailed =>
        /\ \A i \in 1..Len(phaseLog) : phaseLog[i] \notin LaterPhases
        /\ valResult.kind # "none" =>
              /\ valResult.kind = "error"
              /\ valResult.step = "workload with backup"

\* the weaker half alone: no later phase is started after the full-backup
\* task returned an error (refuted as well: g.Wait can return before the
\* error of the task has stopped the context)
C34_LaterPhaseAfterFailure ==
    BackupTaskFailed => \A i \in 1..Len(phaseLog) : phaseLog[i] \notin LaterPhases

(***************************************************************************)
(* Properties of the verify-integrity phase                                *)
(***************************************************************************)
\* C40: whatever verifyIntegrity returned (a failure to acquire its
\* connection, a failure of either fingerprint, a mismatch or nil), the
\* "verify integrity" step does not fail: it is the last step, the loop is
\* left, and what Validate returns is a Report and no error.
C40_VerifyNeverFailsRun ==
    /\ [](integrity # "none" =>
            /\ "verify integrity" \notin phaseErrs
            /\ stepIdx = NumSteps + 1
            /\ valResult.kind # "none" =>
                  /\ valResult.kind = "report"
                  /\ valResult.err = ""
                  /\ valResult.report.present)
    /\ [][(\E ok \in BOOLEAN : VerifyAcquire(ok)) \/
          (\E r \in {"source error", "restored error", "compare"} : VerifyExec(r))
          => (integrity' # "none" => mainPc' = "loop" /\ valResult' = ValNone)]_vars

\* Validate has returned its Report although verifyIntegrity returned an
\* error other than a mismatch
C40_Witness ==
    /\ integrity = "error"
    /\ valResult.kind = "report"
    /\ cmdResult.returned
    /\ cmdResult.printed.present

(***************************************************************************)
(* Properties of a stop observed between phases                            *)
(***************************************************************************)
\* C35: at the top of every iteration of the loop over steps Validate
\* looks at the stop signal; when it is raised there, Validate starts no
\* phase and returns without a Report, the phases started being those
\* before the check; the command then prints no report, and it returns only
\* after Clean has run.
C35_StopBetweenPhases ==
    /\ [][(mainPc = "loop" /\ stepIdx <= NumSteps /\ stopping /\ mainPc' # mainPc) =>
            /\ valResult'.kind = "stopped"
            /\ ~valResult'.report.present
            /\ phaseLog' = phaseLog
            /\ mainPc' \in {"deferDropShow", "valRelease"}]_vars
    /\ [](valResult.kind = "stopped" =>
            /\ Len(phaseLog) = stepIdx - 1
            /\ stepIdx <= NumSteps
            /\ ~cmdResult.printed.present
            /\ cmdResult.returned => cleanResult.returned)
    /\ [][valResult.kind = "stopped" => UNCHANGED <<phaseLog, stepIdx, valResult>>]_vars

\* the stop was seen before the restore phase, and the command has returned
\* after its teardown
C35_Witness ==
    /\ valResult.kind = "stopped"
    /\ stepIdx = 5
    /\ phaseLog = SubSeq(Steps, 1, 4)
    /\ cmdResult.returned
    /\ cleanResult.returned
    /\ cleanLog # <<>>

(***************************************************************************)
(* Properties of the keys of the workload                                  *)
(***************************************************************************)
\* the writes so far: run and position in the run's sequence of upserts
KeyWrites == {<<r, i>> : r \in KeyRuns, i \in 1..MaxRunWrites} \cap
             {w \in KeyRuns \X (1..MaxRunWrites) : w[2] <= Len(kKeys[w[1]])}

\* C37: the i-th write of a run has key index i - 1 under the run's prefix
\* (the index starts at 0 and grows by one from a write to the next), the
\* prefixes of two runs differ, and no two writes, of one run or of two,
\* have the same key.
C37_KeysNeverCollide ==
    /\ \A r \in KeyRuns : \A i \in 1..Len(kKeys[r]) :
          kKeys[r][i] = Key(kPrefix[r], i - 1)
    /\ \A r1, r2 \in KeyRuns :
          (r1 # r2 /\ kPrefix[r1] # "") => kPrefix[r1] # kPrefix[r2]
    /\ \A w1, w2 \in KeyWrites :
          w1 # w2 => kKeys[w1[1]][w1[2]] # kKeys[w2[1]][w2[2]]

\* two runs have each written twice
C37_Witness ==
    \A r \in 1..2 : Len(kKeys[r]) = 2 /\ kIdx[r] = 1

(***************************************************************************)
(* Properties of the pool's connections                                    *)
(***************************************************************************)
\* every goroutine Validate started, directly or through runWorkload, has
\* returned or was never started
TasksReturned ==
    /\ \A r \in Runs : runPc[r] \in {"idle", "done", "noconn", "failed"}
    /\ \A w \in Workers : wPc[w] \in {"idle", "done"}
    /\ bPc \in {"idle", "done", "failed"}

\* C36: once the command's calls of New, Validate and Clean have returned
\* and every task Validate started has returned, no connection is checked
\* out of the pool; and the main goroutine holds none between New and
\* Validate and between Validate and Clean.
C36_ConnectionsReleased ==
    /\ (mainPc = "exit" /\ TasksReturned) => inUse = 0
    /\ (mainPc \in {"valAcquire", "valReturned", "cleanAcquire"} /\ TasksReturned)
          => inUse = 0
    /\ inUse \in 0..maxConns

\* the command has returned an error of a step after workers and backup ran,
\* and teardown is over
C36_Witness ==
    /\ mainPc = "exit"
    /\ TasksReturned
    /\ runPc[0] = "done"
    /\ runPc[1] \in {"done", "failed"}
    /\ bPc = "done"
    /\ valResult.kind = "error"
    /\ cleanResult.returned
    /\ inUse = 0

(***************************************************************************)
(* Properties of the concurrent phase under a full pool                    *)
(***************************************************************************)
\* some task is waiting for a connection of the pool
WaitingForConn ==
    \/ pBackup = "acquire"
    \/ pRuns[<<"acquire", FALSE>>] + pRuns[<<"acquire", TRUE>>] > 0

\* C39: for every accepted worker count, 0 and counts above the pool size
\* included, the pool never hands out more than its 10 connections, a task
\* waiting for a connection does not wait forever, and the orchestrator's
\* wait eventually returns, with every worker's duration elapsed and the
\* full backup finished.
C39_ConcurrentPhaseTerminates ==
    /\ [](PoolInUse <= maxConns)
    /\ WaitingForConn ~> ~WaitingForConn
    /\ <>(pMain = "returned" /\ pWork.start + pWork.select = 0 /\ pBackup = "done")

\* with more workers than the pool has connections, the pool is exhausted
\* while the full backup and a Run are waiting for a connection
C39_PoolExhausted ==
    /\ pN > maxConns
    /\ PoolInUse = maxConns
    /\ pBackup = "acquire"
    /\ pRuns[<<"acquire", FALSE>>] > 0

\* the phase has returned for a worker count above the size of the pool
C39_Witness ==
    /\ pN > maxConns
    /\ pMain = "returned"
    /\ pBackup = "done"
    /\ pWg = 0

====
